---- MODULE Spec2Model ----
(***************************************************************************)
(* Model of the caching-and-routing core of selfcare_ai_service:           *)
(* the three-tier CacheService (memory LRU, Redis, SQLite), the chat       *)
(* handler that probes it, routes by complexity and writes back, and the   *)
(* read/write lock around the shared AI model.                             *)
(***************************************************************************)
EXTENDS Integers, Sequences, FiniteSets, TLC

(***************************************************************************)
(* Bounds of the model.                                                    *)
(***************************************************************************)
\* largest memory_ttl_seconds a configuration is drawn from (0..MaxTtl)
MaxTtl == 1
\* largest memory_cache_entries a configuration is drawn from (0..MaxEntries)
MaxEntries == 2
\* the clock runs from 0 to MaxTime
MaxTime == 1
\* CacheService calls (get or set) made in one run of SpecCache
MaxCalls == 2
\* CacheService calls (get or set) made in one run of SpecMemory
MaxMemoryCalls == 4

Keys == {"k1", "k2", "k3"}

\* serde_json::Value payloads: serialised ChatResponses and one JSON value
\* that is valid JSON but does not deserialise into a ChatResponse.
ChatJson(text) == [kind |-> "chat", response |-> text]
OtherJson == [kind |-> "other", response |-> "x"]
Texts == {"hello", "bye"}
ChatValues == {ChatJson(t) : t \in Texts}
JsonValues == ChatValues \cup {OtherJson}

\* Option / Result encodings
None == [some |-> FALSE]
Some(v) == [some |-> TRUE, val |-> v]

\* serde_json::to_string: the text of a JSON value
ToJsonString(v) == <<"json", v>>
\* a stored string that is not JSON
Garbage == <<"raw", OtherJson>>
\* serde_json::from_str::<Value>: Ok(value) for JSON text, Err otherwise
FromStr(s) == IF s[1] = "json" THEN Some(s[2]) ELSE None
\* serde_json::from_value::<ChatResponse>: Ok only for a ChatResponse object
FromValueOk(v) == v.kind = "chat"

StoredStrings == {ToJsonString(v) : v \in JsonValues} \cup {Garbage}

(***************************************************************************)
(* The lru crate's LruCache, as cache_service.rs uses it: a sequence of    *)
(* entries, most recently used first.                                      *)
(***************************************************************************)
RECURSIVE IndexOf(_, _, _)
IndexOf(cache, key, i) ==
    IF i > Len(cache) THEN 0
    ELSE IF cache[i].key = key THEN i
    ELSE IndexOf(cache, key, i + 1)

Contains(cache, key) == IndexOf(cache, key, 1) # 0

EntryOf(cache, key) == cache[IndexOf(cache, key, 1)]

Without(cache, i) == SubSeq(cache, 1, i - 1) \o SubSeq(cache, i + 1, Len(cache))

\* a variant of get that does not touch the key
LruGetNoTouch(cache, key) == cache
\* LruCache::get: a present key becomes the most recently used
LruGet(cache, key) ==
    LET i == IndexOf(cache, key, 1) IN
    IF i = 0 THEN cache ELSE <<cache[i]>> \o Without(cache, i)

\* LruCache::pop
LruPop(cache, key) ==
    LET i == IndexOf(cache, key, 1) IN
    IF i = 0 THEN cache ELSE Without(cache, i)

\* a variant of put that neither replaces nor evicts
LruPutAppends(cache, cap, entry) == <<entry>> \o cache

\* LruCache::put: replace in place and touch, or insert evicting the least
\* recently used entry when the cache is full
LruPut(cache, cap, entry) ==
    LET i == IndexOf(cache, entry.key, 1) IN
    IF i # 0 THEN <<entry>> \o Without(cache, i)
    ELSE IF Len(cache) >= cap THEN <<entry>> \o SubSeq(cache, 1, cap - 1)
    ELSE <<entry>> \o cache

Max(a, b) == IF a >= b THEN a ELSE b

\* CacheService::new: the capacity is memory_cache_entries.max(1)
MemoryCapacity(entries) == Max(entries, 1)

(***************************************************************************)
(* State.                                                                  *)
(***************************************************************************)
VARIABLES
    settings,       \* CacheSettings and the tiers CacheService::new configured
    memory_cache,   \* CacheService.memory_cache: LruCache<String, MemoryEntry>
    redis,          \* the Redis server's keys: key -> Option<[value, expires]>
    sqlite,         \* the ai_cache table: key -> Option<row>
    stats,          \* CacheStats
    now,            \* Utc::now()
    lastOp,         \* history: the CacheService call just made, if no time
                    \* has passed since, and what it returned
    recency,        \* history: the keys held in memory in order of last use,
                    \* least recently used first
    callsLeft,      \* bound: CacheService calls the run may still make
    pc,             \* where each task stands in its handler
    req,            \* each chat request's locals, and what it has called
    memory_lock,    \* the tasks holding the memory_cache Mutex
    model_writers,  \* the tasks holding write access to the AIModel RwLock
    api_key_set,    \* whether OpenRouterSettings.api_key is non-empty
    stream          \* one streamed response: the producer task spawned by
                    \* stream_text_response, its channel and its consumer

cacheVars == <<settings, memory_cache, redis, sqlite, stats, now>>
histVars == <<lastOp, recency, callsLeft>>
taskVars == <<pc, req, memory_lock, model_writers, api_key_set>>
vars == <<cacheVars, histVars, taskVars, stream>>

NoExpiry == 0 - 1

(***************************************************************************)
(* Memory Tier: CacheService::get_from_memory and CacheService::set_memory *)
(***************************************************************************)
\* a variant that still returns an entry at the instant it expires
GetFromMemoryInclusive(cache, key, t) ==
    IF Contains(cache, key) /\ EntryOf(cache, key).expires_at >= t
    THEN [cache |-> LruGet(cache, key), value |-> Some(EntryOf(cache, key).value)]
    ELSE [cache |-> LruPop(cache, key), value |-> None]
\* get_from_memory: LruCache::get (which touches the key); a live entry is
\* returned, anything else is popped.
GetFromMemory(cache, key, t) ==
    IF Contains(cache, key) /\ EntryOf(cache, key).expires_at > t
    THEN [cache |-> LruGet(cache, key), value |-> Some(EntryOf(cache, key).value)]
    ELSE [cache |-> LruPop(cache, key), value |-> None]

\* a variant that stores nothing
SetMemoryNoop(cache, cfg, key, value, t) == cache
\* set_memory: expires_at = Utc::now() + memory_ttl_seconds, then LruCache::put
SetMemory(cache, cfg, key, value, t) ==
    LruPut(cache, MemoryCapacity(cfg.memory_cache_entries),
           [key |-> key, value |-> value,
            expires_at |-> t + cfg.memory_ttl_seconds])

(***************************************************************************)
(* Distributed Tier: RedisRepo over the Redis server.  An outcome of "err" *)
(* is a failed command (connection lost); the server expires keys itself.  *)
(***************************************************************************)
RedisLive(store, key, t) ==
    /\ store[key].some
    /\ \/ store[key].val.expires = NoExpiry
       \/ store[key].val.expires > t

\* RedisRepo::get -> Result<Option<String>>
RedisRepoGet(store, key, t, outcome) ==
    IF outcome = "err" THEN [ok |-> FALSE, opt |-> None]
    ELSE IF RedisLive(store, key, t)
         THEN [ok |-> TRUE, opt |-> Some(store[key].val.value)]
         ELSE [ok |-> TRUE, opt |-> None]

\* RedisRepo::set: SETEX when ttl_seconds > 0, SET otherwise
RedisRepoSet(store, cfg, key, str, t, outcome) ==
    IF outcome = "err" THEN store
    ELSE [store EXCEPT ![key] =
            Some([value |-> str,
                  expires |-> IF cfg.redis_ttl_seconds > 0
                              THEN t + cfg.redis_ttl_seconds ELSE NoExpiry])]

(***************************************************************************)
(* Persistent Tier: CacheRepo over the ai_cache table.                     *)
(***************************************************************************)
\* rows deleted in one size-based cleanup
EvictBatch == 500

Rows(table) == {k \in DOMAIN table : table[k].some}

\* db_size: the file size grows with the number of rows (one unit per row)
DbSize(table) == Cardinality(Rows(table))

\* the subsets of S that have k elements
RECURSIVE KSubsets(_, _)
KSubsets(S, k) ==
    IF k = 0 THEN {{}}
    ELSE UNION {{T \cup {x} : T \in KSubsets(S \ {x}, k - 1)} : x \in S}

\* the ways to take need rows out of rows that were created at one instant
Picks(ties, need) ==
    IF 2 * need <= Cardinality(ties) THEN KSubsets(ties, need)
    ELSE {ties \ D : D \in KSubsets(ties, Cardinality(ties) - need)}

CreatedBefore(table, c) == {k \in Rows(table) : table[k].val.created_at < c}
CreatedNotAfter(table, c) == {k \in Rows(table) : table[k].val.created_at <= c}

\* a variant that orders the rows by created_at descending
NewestBatches(table) ==
    IF Cardinality(Rows(table)) <= EvictBatch THEN {Rows(table)}
    ELSE LET c == CHOOSE c \in {table[k].val.created_at : k \in Rows(table)} :
                    /\ Cardinality(Rows(table) \ CreatedNotAfter(table, c)) < EvictBatch
                    /\ Cardinality(Rows(table) \ CreatedBefore(table, c)) >= EvictBatch
             must == Rows(table) \ CreatedNotAfter(table, c)
             ties == CreatedNotAfter(table, c) \ CreatedBefore(table, c)
         IN {must \cup S : S \in Picks(ties, EvictBatch - Cardinality(must))}

\* a variant without the LIMIT
OldestBatchesUnlimited(table) == {Rows(table)}

\* the sets of keys "ORDER BY created_at ASC LIMIT 500" can select: every row
\* created before some instant c, and as many of the rows created at c as
\* make up the batch (which of these, the statement does not say)
OldestBatches(table) ==
    IF Cardinality(Rows(table)) <= EvictBatch THEN {Rows(table)}
    ELSE LET c == CHOOSE c \in {table[k].val.created_at : k \in Rows(table)} :
                    /\ Cardinality(CreatedBefore(table, c)) < EvictBatch
                    /\ Cardinality(CreatedNotAfter(table, c)) >= EvictBatch
             must == CreatedBefore(table, c)
             ties == CreatedNotAfter(table, c) \ must
         IN {must \cup S : S \in Picks(ties, EvictBatch - Cardinality(must))}

\* cleanup_if_needed, for the batch the DELETE selected
CleanupIfNeeded(table, cfg, batch) ==
    IF cfg.sqlite_max_size = 0 THEN table
    ELSE IF DbSize(table) <= cfg.sqlite_max_size THEN table
    ELSE [k \in DOMAIN table |-> IF k \in batch THEN None ELSE table[k]]

\* a variant that returns the row without counting the hit
CacheRepoGetKeepsHits(table, key, t, outcome) ==
    IF outcome = "err" THEN [ok |-> FALSE, opt |-> None, table |-> table]
    ELSE IF table[key].some /\ table[key].val.expires_at > t
         THEN [ok |-> TRUE,
               opt |-> Some([key |-> key,
                             value_json |-> table[key].val.value_json,
                             created_at |-> table[key].val.created_at,
                             expires_at |-> table[key].val.expires_at,
                             hits |-> table[key].val.hits + 1]),
               table |-> table]
         ELSE [ok |-> TRUE, opt |-> None, table |-> table]

\* CacheRepo::get -> Result<Option<CacheRecord>>; a hit bumps the row's hits
\* and returns the row with the new count
CacheRepoGet(table, key, t, outcome) ==
    IF outcome = "err" THEN [ok |-> FALSE, opt |-> None, table |-> table]
    ELSE IF table[key].some /\ table[key].val.expires_at > t
         THEN LET row == [table[key].val EXCEPT !.hits = @ + 1]
              IN [ok |-> TRUE,
                  opt |-> Some([key |-> key, value_json |-> row.value_json,
                                created_at |-> row.created_at,
                                expires_at |-> row.expires_at,
                                hits |-> row.hits]),
                  table |-> [table EXCEPT ![key] = Some(row)]]
         ELSE [ok |-> TRUE, opt |-> None, table |-> table]

\* a variant that replaces the whole row on conflict
UpsertResetsHits(table, cfg, key, str, t) ==
    [table EXCEPT ![key] =
        Some([value_json |-> str, created_at |-> t,
              expires_at |-> t + cfg.sqlite_ttl_days, hits |-> 0])]

\* CacheRepo::set, lines 102-118: INSERT .. ON CONFLICT(cache_key) DO UPDATE
\* of response_json, created_at and expires_at
Upsert(table, cfg, key, str, t) ==
    [table EXCEPT ![key] =
        Some([value_json |-> str, created_at |-> t,
              expires_at |-> t + cfg.sqlite_ttl_days,
              hits |-> IF table[key].some THEN table[key].val.hits ELSE 0])]

\* CacheRepo::set: the upsert, then cleanup_if_needed.
\* The set of tables the call can leave behind.
CacheRepoSet(table, cfg, key, str, t, outcome) ==
    IF outcome = "err" THEN {table}
    ELSE {CleanupIfNeeded(Upsert(table, cfg, key, str, t), cfg, batch) :
             batch \in OldestBatches(Upsert(table, cfg, key, str, t))}

\* a variant that spares the rows that expire at this very instant
CleanupExpiredStrict(table, t) ==
    [table |-> [k \in DOMAIN table |->
                   IF table[k].some /\ table[k].val.expires_at < t
                   THEN None ELSE table[k]],
     rows |-> Cardinality({k \in Rows(table) : table[k].val.expires_at < t})]

\* CacheRepo::cleanup_expired: DELETE .. WHERE expires_at <= now, and the
\* number of rows the statement deleted
CleanupExpired(table, t) ==
    [table |-> [k \in DOMAIN table |->
                   IF table[k].some /\ table[k].val.expires_at <= t
                   THEN None ELSE table[k]],
     rows |-> Cardinality({k \in Rows(table) : table[k].val.expires_at <= t})]

(***************************************************************************)
(* Cache Orchestrator: CacheService::get and CacheService::set as whole    *)
(* calls.  rOut and sOut are the outcomes of the Redis command and of the  *)
(* SQLite call ("ok" or "err").                                            *)
(***************************************************************************)
Outcomes == {"ok", "err"}

Hit(value, source) == Some([value |-> value, source |-> source])

\* a variant that counts every event twice
BumpTwice(st, counter) == [st EXCEPT ![counter] = @ + 2]

\* AtomicU64::fetch_add(1, Ordering::Relaxed)
Bump(st, counter) == [st EXCEPT ![counter] = @ + 1]

\* the Redis probe of get: a hit needs Ok(Some(text)) and text that parses
RedisProbe(cfg, store, key, t, rOut) ==
    IF ~cfg.redis_repo THEN None
    ELSE LET r == RedisRepoGet(store, key, t, rOut) IN
         IF r.ok /\ r.opt.some THEN FromStr(r.opt.val) ELSE None

\* the SQLite probe of get: [value: the parsed hit, table: the table after]
SqliteProbe(cfg, table, key, t, sOut) ==
    IF ~cfg.sqlite_repo THEN [value |-> None, table |-> table]
    ELSE LET r == CacheRepoGet(table, key, t, sOut) IN
         IF r.ok /\ r.opt.some
         THEN [value |-> FromStr(r.opt.val.value_json), table |-> r.table]
         ELSE [value |-> None, table |-> r.table]

\* a variant that gives up when the Redis probe yields nothing
CacheServiceGetRedisAborts(cfg, cache, store, table, st, key, t, rOut, sOut) ==
    LET st1 == Bump(st, "total_requests")
        m == GetFromMemory(cache, key, t)
        r == RedisProbe(cfg, store, key, t, rOut)
        s == SqliteProbe(cfg, table, key, t, sOut)
        afterRedis == IF cfg.redis_repo THEN <<"memory", "redis">> ELSE <<"memory">>
        afterSqlite == IF cfg.sqlite_repo THEN afterRedis \o <<"sqlite">> ELSE afterRedis
    IN  IF m.value.some
        THEN [result |-> Hit(m.value.val, "memory"), cache |-> m.cache,
              table |-> table, stats |-> Bump(st1, "memory_hits"),
              probed |-> <<"memory">>]
        ELSE IF r.some
        THEN [result |-> Hit(r.val, "redis"),
              cache |-> SetMemory(m.cache, cfg, key, r.val, t),
              table |-> table, stats |-> Bump(st1, "redis_hits"),
              probed |-> afterRedis]
        ELSE IF cfg.redis_repo
        THEN [result |-> None, cache |-> m.cache, table |-> table,
              stats |-> st1, probed |-> afterRedis]
        ELSE IF s.value.some
        THEN [result |-> Hit(s.value.val, "sqlite"),
              cache |-> SetMemory(m.cache, cfg, key, s.value.val, t),
              table |-> s.table, stats |-> Bump(st1, "sqlite_hits"),
              probed |-> afterSqlite]
        ELSE [result |-> None, cache |-> m.cache, table |-> s.table,
              stats |-> st1, probed |-> afterSqlite]

\* a variant that probes SQLite before Redis
CacheServiceGetSqliteFirst(cfg, cache, store, table, st, key, t, rOut, sOut) ==
    LET st1 == Bump(st, "total_requests")
        m == GetFromMemory(cache, key, t)
        r == RedisProbe(cfg, store, key, t, rOut)
        s == SqliteProbe(cfg, table, key, t, sOut)
        afterRedis == IF cfg.redis_repo THEN <<"memory", "redis">> ELSE <<"memory">>
        afterSqlite == IF cfg.sqlite_repo THEN afterRedis \o <<"sqlite">> ELSE afterRedis
    IN  IF m.value.some
        THEN [result |-> Hit(m.value.val, "memory"), cache |-> m.cache,
              table |-> table, stats |-> Bump(st1, "memory_hits"),
              probed |-> <<"memory">>]
        ELSE IF s.value.some
        THEN [result |-> Hit(s.value.val, "sqlite"),
              cache |-> SetMemory(m.cache, cfg, key, s.value.val, t),
              table |-> s.table, stats |-> Bump(st1, "sqlite_hits"),
              probed |-> afterSqlite]
        ELSE IF r.some
        THEN [result |-> Hit(r.val, "redis"),
              cache |-> SetMemory(m.cache, cfg, key, r.val, t),
              table |-> table, stats |-> Bump(st1, "redis_hits"),
              probed |-> afterRedis]
        ELSE [result |-> None, cache |-> m.cache, table |-> s.table,
              stats |-> st1, probed |-> afterSqlite]

CacheServiceGet(cfg, cache, store, table, st, key, t, rOut, sOut) ==
    LET st1 == Bump(st, "total_requests")
        m == GetFromMemory(cache, key, t)
        r == RedisProbe(cfg, store, key, t, rOut)
        s == SqliteProbe(cfg, table, key, t, sOut)
        afterRedis == IF cfg.redis_repo THEN <<"memory", "redis">> ELSE <<"memory">>
        afterSqlite == IF cfg.sqlite_repo THEN afterRedis \o <<"sqlite">> ELSE afterRedis
    IN  IF m.value.some
        THEN [result |-> Hit(m.value.val, "memory"), cache |-> m.cache,
              table |-> table, stats |-> Bump(st1, "memory_hits"),
              probed |-> <<"memory">>]
        ELSE IF r.some
        THEN [result |-> Hit(r.val, "redis"),
              cache |-> SetMemory(m.cache, cfg, key, r.val, t),
              table |-> table, stats |-> Bump(st1, "redis_hits"),
              probed |-> afterRedis]
        ELSE IF s.value.some
        THEN [result |-> Hit(s.value.val, "sqlite"),
              cache |-> SetMemory(m.cache, cfg, key, s.value.val, t),
              table |-> s.table, stats |-> Bump(st1, "sqlite_hits"),
              probed |-> afterSqlite]
        ELSE [result |-> None, cache |-> m.cache, table |-> s.table,
              stats |-> st1, probed |-> afterSqlite]

(***************************************************************************)
(* Initial states: a configuration, empty memory, and whatever the shared  *)
(* Redis server and the SQLite file held before the process started.       *)
(***************************************************************************)
Settings ==
    [memory_ttl_seconds : 0 .. MaxTtl,
     memory_cache_entries : {0, MaxEntries},
     redis_repo : BOOLEAN,
     redis_ttl_seconds : {MaxTtl},
     sqlite_repo : BOOLEAN,
     sqlite_ttl_days : {MaxTtl + 1},
     sqlite_max_size : {0}]

EmptyStore == [k \in Keys |-> None]

SeedStrings == {ToJsonString(ChatJson("hello")), ToJsonString(OtherJson), Garbage}

RedisSeed(str) == [EmptyStore EXCEPT !["k1"] = Some([value |-> str, expires |-> NoExpiry])]

InitialRedis(cfg) ==
    IF cfg.redis_repo THEN {EmptyStore} \cup {RedisSeed(str) : str \in SeedStrings}
    ELSE {EmptyStore}

SqliteSeed(str, e) ==
    [EmptyStore EXCEPT !["k1"] =
        Some([value_json |-> str, created_at |-> 0, expires_at |-> e, hits |-> 0])]

InitialSqlite(cfg) ==
    IF cfg.sqlite_repo
    THEN {EmptyStore, SqliteSeed(ToJsonString(ChatJson("hello")), 1)}
         \cup {SqliteSeed(str, MaxTime + 1) : str \in SeedStrings}
    ELSE {EmptyStore}

NoOp == [op |-> "none"]

ChatTasks == {"c1", "c2"}
AuxTask == "aux"
Tasks == ChatTasks \cup {AuxTask}

\* a chat request that has not started; got is what CacheService::get
\* returned, searched the outcome of Search, prompt the message handed to the
\* generation collaborator, generator the collaborator that was called,
\* error the error that ended the request, called the number of calls made
\* to Search, to generation and to CacheService::set
NewRequest ==
    [key |-> "k1", use_cache |-> FALSE, wants_stream |-> FALSE,
     complexity |-> "none",
     probe |-> "none", found |-> None, source |-> "none", got |-> None,
     searched |-> "none", prompt |-> None, generator |-> "none",
     error |-> None, response |-> None, outcome |-> "none",
     called |-> [search |-> 0, generate |-> 0, set |-> 0]]

\* no response is being streamed
NoStream == [pc |-> "none"]

InitTasks ==
    /\ stream = NoStream
    /\ pc = [t \in Tasks |-> "idle"]
    /\ req = [t \in ChatTasks |-> NewRequest]
    /\ memory_lock = {}
    /\ model_writers = {}

InitService ==
    /\ memory_cache = <<>>
    /\ stats = [total_requests |-> 0, memory_hits |-> 0,
                redis_hits |-> 0, sqlite_hits |-> 0]
    /\ now = 0
    /\ lastOp = NoOp
    /\ recency = <<>>

InitCache ==
    /\ settings \in Settings
    /\ redis \in InitialRedis(settings)
    /\ sqlite \in InitialSqlite(settings)
    /\ InitService
    /\ InitTasks
    /\ api_key_set = FALSE
    /\ callsLeft = MaxCalls

Range(seq) == {seq[i] : i \in 1 .. Len(seq)}

MemoryKeys(cache) == {cache[i].key : i \in 1 .. Len(cache)}

\* history: key was used; keys no longer held are forgotten
Touch(order, key, cache) ==
    SelectSeq(SelectSeq(order, LAMBDA k : k # key) \o <<key>>,
              LAMBDA k : k \in MemoryKeys(cache))

Forget(order, cache) == SelectSeq(order, LAMBDA k : k \in MemoryKeys(cache))

\* history: the call made just before this one, when it was on the same key
Preceding(key) ==
    IF lastOp.op # "none" /\ lastOp.key = key
    THEN Some([op |-> lastOp.op, result |-> lastOp.result])
    ELSE None

\* one whole CacheService::get(key)
CacheGet(key, rOut, sOut) ==
    /\ callsLeft > 0
    /\ callsLeft' = callsLeft - 1
    /\ LET g == CacheServiceGet(settings, memory_cache, redis, sqlite, stats,
                                key, now, rOut, sOut)
       IN /\ memory_cache' = g.cache
          /\ sqlite' = g.table
          /\ stats' = g.stats
          /\ lastOp' = [op |-> "get", key |-> key, result |-> g.result,
                        probed |-> g.probed,
                        rOut |-> IF settings.redis_repo THEN rOut ELSE "none",
                        sOut |-> IF settings.sqlite_repo THEN sOut ELSE "none",
                        removed |-> MemoryKeys(memory_cache) \ MemoryKeys(g.cache),
                        follows |-> Preceding(key)]
          /\ recency' = IF g.result.some THEN Touch(recency, key, g.cache)
                        ELSE Forget(recency, g.cache)
    /\ UNCHANGED <<settings, redis, now, taskVars, stream>>

\* one whole CacheService::set(key, value)
CacheSet(key, value, rOut, sOut) ==
    /\ callsLeft > 0
    /\ callsLeft' = callsLeft - 1
    /\ memory_cache' = SetMemory(memory_cache, settings, key, value, now)
    /\ redis' = IF settings.redis_repo
                THEN RedisRepoSet(redis, settings, key, ToJsonString(value), now, rOut)
                ELSE redis
    /\ IF settings.sqlite_repo
       THEN sqlite' \in CacheRepoSet(sqlite, settings, key, ToJsonString(value), now, sOut)
       ELSE sqlite' = sqlite
    /\ lastOp' = [op |-> "set", key |-> key, result |-> Hit(value, "ok"),
                  probed |-> <<>>, rOut |-> "none", sOut |-> "none",
                  removed |-> MemoryKeys(memory_cache) \ MemoryKeys(memory_cache'),
                  follows |-> None]
    /\ recency' = Touch(recency, key, memory_cache')
    /\ UNCHANGED <<settings, stats, now, taskVars, stream>>

\* time passes
Tick ==
    /\ now < MaxTime
    /\ now' = now + 1
    /\ lastOp' = NoOp
    /\ UNCHANGED <<settings, memory_cache, redis, sqlite, stats, recency, callsLeft,
                   taskVars, stream>>

CacheKeys == {"k1", "k2"}

NextCache ==
    \/ \E k \in CacheKeys, rOut \in Outcomes, sOut \in Outcomes : CacheGet(k, rOut, sOut)
    \/ \E k \in CacheKeys, rOut \in Outcomes, sOut \in Outcomes :
          CacheSet(k, ChatJson("bye"), rOut, sOut)
    \/ Tick

SpecCache == InitCache /\ [][NextCache]_vars

(***************************************************************************)
(* The Memory Tier under a longer run of calls on three keys, the lower    *)
(* tiers answering without faults.                                         *)
(***************************************************************************)
InitMemory ==
    /\ settings \in {cfg \in Settings : ~cfg.redis_repo}
    /\ redis = EmptyStore
    /\ sqlite \in {tbl \in InitialSqlite(settings) :
                      \A k \in Keys : tbl[k].some => FromStr(tbl[k].val.value_json).some}
    /\ InitService
    /\ InitTasks
    /\ api_key_set = FALSE
    /\ callsLeft = MaxMemoryCalls

NextMemory ==
    \/ \E k \in Keys : CacheGet(k, "ok", "ok")
    \/ \E k \in Keys : CacheSet(k, ChatJson("bye"), "ok", "ok")
    \/ Tick

SpecMemory == InitMemory /\ [][NextMemory]_vars

(***************************************************************************)
(* The handlers, step by step.  A step runs a task from one await to the   *)
(* next: taking a lock, one Memory Tier operation under its Mutex, one     *)
(* Redis command, one SQLite call, one collaborator call.                  *)
(***************************************************************************)
\* the Accept header as the set of media types it names
Accepts ==
    {{}, {"application/json"}, {"text/event-stream"}, {"application/x-ndjson"},
     {"application/jsonl"}}

\* chat, lines 44-54
WantsStream(stream_flag, accept) ==
    \/ stream_flag
    \/ "text/event-stream" \in accept
    \/ "application/x-ndjson" \in accept
    \/ "application/jsonl" \in accept

\* ModelService::analyze_complexity, on the message's length in characters
LowLimit == 200
HighLimit == 800

\* a variant with the boundaries on the wrong side
AnalyzeComplexityInclusive(length) ==
    IF length <= LowLimit THEN "Low"
    ELSE IF length <= HighLimit THEN "Medium"
    ELSE "High"

AnalyzeComplexity(length) ==
    IF length < LowLimit THEN "Low"
    ELSE IF length < HighLimit THEN "Medium"
    ELSE "High"

MessageLengths == {199, 200, 799, 800, 801}

Called(r, what) == [r EXCEPT !.called[what] = @ + 1]

\* CacheService::get after the Memory Tier missed
AfterMemoryMiss == 
    IF settings.redis_repo THEN "get_redis"
    ELSE IF settings.sqlite_repo THEN "get_sqlite"
    ELSE "route"

\* CacheService::set after set_memory
AfterSetMemory ==
    IF settings.redis_repo THEN "set_redis"
    ELSE IF settings.sqlite_repo THEN "set_sqlite"
    ELSE "done"

\* chat, lines 58-76: get returned Some((value, source)); a value that
\* deserialises into a ChatResponse is answered, any other falls through
Serve(r, value, source) ==
    IF FromValueOk(value)
    THEN [r EXCEPT !.probe = "hit", !.source = source, !.found = None,
                   !.got = Some(value), !.response = Some(value),
                   !.outcome = "hit"]
    ELSE [r EXCEPT !.probe = "hit", !.source = source, !.found = None,
                   !.got = Some(value)]

\* a variant that goes on to generation after answering from the cache
ServePcGenerates(value) == "route"

ServePc(value) == IF FromValueOk(value) THEN "done" ELSE "route"

\* chat, lines 21-58: validation, the request's key, the sampling decision;
\* then into CacheService::get (total_requests) or straight to routing
ChatBegin(t, key, cache_bypass, sampled, wants_stream) ==
    /\ pc[t] = "idle"
    /\ LET use_cache == ~cache_bypass /\ sampled
       IN /\ req' = [req EXCEPT ![t].key = key, ![t].use_cache = use_cache,
                                ![t].wants_stream = wants_stream]
          /\ pc' = [pc EXCEPT ![t] = IF use_cache THEN "get_mem_lock" ELSE "route"]
          /\ stats' = IF use_cache THEN Bump(stats, "total_requests") ELSE stats
    /\ UNCHANGED <<settings, memory_cache, redis, sqlite, now, histVars,
                   memory_lock, model_writers, api_key_set, stream>>

MemoryLockPcs == {"get_mem_lock", "promote_lock", "set_mem_lock"}

LockedPc(p) ==
    IF p = "get_mem_lock" THEN "get_mem"
    ELSE IF p = "promote_lock" THEN "promote"
    ELSE "set_mem"

\* memory_cache.lock().await
MutexFree(holders) == holders = {}

\* a variant in which a guard outlives the operation it was taken for
UnlockLate(holders, t) == holders

\* the guard is dropped at the end of the operation that took it
Unlock(holders, t) == holders \ {t}

AcquireMemory(t) ==
    /\ pc[t] \in MemoryLockPcs
    /\ MutexFree(memory_lock)
    /\ memory_lock' = memory_lock \cup {t}
    /\ pc' = [pc EXCEPT ![t] = LockedPc(pc[t])]
    /\ UNCHANGED <<cacheVars, histVars, req, model_writers, api_key_set, stream>>

\* get_from_memory under the lock, and what get does with its answer
GetMemoryStep(t) ==
    /\ pc[t] = "get_mem"
    /\ LET m == GetFromMemory(memory_cache, req[t].key, now)
       IN /\ memory_cache' = m.cache
          /\ IF m.value.some
             THEN /\ stats' = Bump(stats, "memory_hits")
                  /\ req' = [req EXCEPT ![t] = Serve(@, m.value.val, "memory")]
                  /\ pc' = [pc EXCEPT ![t] = ServePc(m.value.val)]
             ELSE /\ stats' = stats
                  /\ req' = [req EXCEPT ![t].probe =
                                IF AfterMemoryMiss = "route" THEN "absent" ELSE @]
                  /\ pc' = [pc EXCEPT ![t] = AfterMemoryMiss]
    /\ memory_lock' = Unlock(memory_lock, t)
    /\ UNCHANGED <<settings, redis, sqlite, now, histVars, model_writers, api_key_set, stream>>

\* redis_repo.get(key).await and the parse of its text
GetRedisStep(t, rOut) ==
    /\ pc[t] = "get_redis"
    /\ LET r == RedisProbe(settings, redis, req[t].key, now, rOut)
       IN IF r.some
          THEN /\ stats' = Bump(stats, "redis_hits")
               /\ req' = [req EXCEPT ![t].found = r, ![t].source = "redis"]
               /\ pc' = [pc EXCEPT ![t] = "promote_lock"]
          ELSE /\ stats' = stats
               /\ req' = [req EXCEPT ![t].probe =
                             IF settings.sqlite_repo THEN @ ELSE "absent"]
               /\ pc' = [pc EXCEPT ![t] =
                             IF settings.sqlite_repo THEN "get_sqlite" ELSE "route"]
    /\ UNCHANGED <<settings, memory_cache, redis, sqlite, now, histVars,
                   memory_lock, model_writers, api_key_set, stream>>

\* spawn_blocking(repo.get(key)).await and the parse of the row's text
GetSqliteStep(t, sOut) ==
    /\ pc[t] = "get_sqlite"
    /\ LET s == SqliteProbe(settings, sqlite, req[t].key, now, sOut)
       IN /\ sqlite' = s.table
          /\ IF s.value.some
             THEN /\ stats' = Bump(stats, "sqlite_hits")
                  /\ req' = [req EXCEPT ![t].found = s.value, ![t].source = "sqlite"]
                  /\ pc' = [pc EXCEPT ![t] = "promote_lock"]
             ELSE /\ stats' = stats
                  /\ req' = [req EXCEPT ![t].probe = "absent"]
                  /\ pc' = [pc EXCEPT ![t] = "route"]
    /\ UNCHANGED <<settings, memory_cache, redis, now, histVars,
                   memory_lock, model_writers, api_key_set, stream>>

\* set_memory of the value a lower tier gave, under the lock; get returns it
PromoteStep(t) ==
    /\ pc[t] = "promote"
    /\ memory_cache' = SetMemory(memory_cache, settings, req[t].key,
                                 req[t].found.val, now)
    /\ memory_lock' = Unlock(memory_lock, t)
    /\ req' = [req EXCEPT ![t] = Serve(@, req[t].found.val, req[t].source)]
    /\ pc' = [pc EXCEPT ![t] = ServePc(req[t].found.val)]
    /\ UNCHANGED <<settings, redis, sqlite, stats, now, histVars,
                   model_writers, api_key_set, stream>>

\* ChatRequest.message, and what Search can answer
Message == <<"message">>
SearchError == "search failed"
GenerationError == "generation failed"
ResultsOf(outcome) ==
    IF outcome = "results" THEN <<[title |-> "t", url |-> "u", snippet |-> "s"]>>
    ELSE << >>

\* a variant that generates from the bare message whatever Search found
EnrichedMessageDropsSources(message, results) == message

\* enrich_and_generate: the message itself when there are no results,
\* otherwise the message followed by the sources block
EnrichedMessage(message, results) ==
    IF results = << >> THEN message
    ELSE message \o <<"Additional context (sources)", results>>

\* chat, lines 79-82: analyze_complexity and the match on it; Low generates
\* locally, Medium and High search first
RouteStep(t, length) ==
    /\ pc[t] = "route"
    /\ req' = [req EXCEPT ![t].complexity = AnalyzeComplexity(length),
                          ![t].prompt = IF AnalyzeComplexity(length) = "Low"
                                        THEN Some(Message) ELSE None]
    /\ pc' = [pc EXCEPT ![t] =
                 IF AnalyzeComplexity(length) = "Low" THEN "gen_lock" ELSE "search"]
    /\ UNCHANGED <<cacheVars, histVars, memory_lock, model_writers, api_key_set, stream>>

\* a variant that gives up when Search finds nothing
AfterSearchDropsEmpty(complexity, outcome) ==
    IF outcome \in {"err", "empty"} THEN "done"
    ELSE IF complexity = "High" /\ api_key_set THEN "cloud"
    ELSE "gen_lock"

\* a variant that sends every request to the local model
AfterSearchNeverCloud(complexity, outcome) ==
    IF outcome = "err" THEN "done" ELSE "gen_lock"

\* a variant that treats a failed search as an empty one
AfterSearchIgnoresError(complexity, outcome) ==
    IF complexity = "High" /\ api_key_set THEN "cloud" ELSE "gen_lock"

\* chat, lines 83-95, and AIService::enrich_and_generate /
\* cloud_model_generate up to their generation call: a failed search ends the
\* request; High goes to the cloud when an API key is set; everything else
\* generates locally
AfterSearch(complexity, outcome) ==
    IF outcome = "err" THEN "done"
    ELSE IF complexity = "High" /\ api_key_set THEN "cloud"
    ELSE "gen_lock"

\* the message handed on after a search that answered: the cloud call takes
\* the bare message, the enrichment path the enriched one
PromptAfterSearch(complexity, outcome) ==
    IF complexity = "High" /\ api_key_set THEN Message
    ELSE EnrichedMessage(Message, ResultsOf(outcome))

SearchOutcomes == {"err", "empty", "results"}

SearchStep(t, outcome) ==
    /\ pc[t] = "search"
    /\ req' = [req EXCEPT ![t] =
                  IF outcome = "err"
                  THEN [Called(@, "search") EXCEPT !.searched = outcome,
                                                   !.error = Some(SearchError),
                                                   !.outcome = "error"]
                  ELSE [Called(@, "search") EXCEPT
                           !.searched = outcome,
                           !.prompt = Some(PromptAfterSearch(req[t].complexity,
                                                             outcome))]]
    /\ pc' = [pc EXCEPT ![t] = AfterSearch(req[t].complexity, outcome)]
    /\ UNCHANGED <<cacheVars, histVars, memory_lock, model_writers, api_key_set, stream>>

\* a variant that grants write access whoever holds the lock
WriteAlwaysFree(holders) == TRUE

\* RwLock::write().await: granted when nobody holds the lock
WriteFree(holders) == holders = {}

AcquireModel(t) ==
    /\ pc[t] = "gen_lock"
    /\ WriteFree(model_writers)
    /\ model_writers' = model_writers \cup {t}
    /\ pc' = [pc EXCEPT ![t] = "gen"]
    /\ UNCHANGED <<cacheVars, histVars, req, memory_lock, api_key_set, stream>>

\* chat, lines 98-108: an Ok response is written to the cache when use_cache
\* is set, an Err ends the request
Generated(r, outcome, text) ==
    IF outcome = "err"
    THEN [Called(r, "generate") EXCEPT !.error = Some(GenerationError),
                                       !.outcome = "error"]
    ELSE IF r.use_cache
    THEN Called([Called(r, "generate") EXCEPT !.response = Some(ChatJson(text)),
                                              !.outcome = "generated"], "set")
    ELSE [Called(r, "generate") EXCEPT !.response = Some(ChatJson(text)),
                                       !.outcome = "generated"]

\* a variant that tries again after a failed generation
GeneratedPcRetries(r, outcome) ==
    IF outcome = "err" THEN "gen_lock"
    ELSE IF r.use_cache THEN "set_mem_lock" ELSE "done"

GeneratedPc(r, outcome) ==
    IF outcome = "ok" /\ r.use_cache THEN "set_mem_lock" ELSE "done"

\* local_model_generate: chat_with_params under the write guard, which is
\* dropped when the function returns
GenerateStep(t, outcome, text) ==
    /\ pc[t] = "gen"
    /\ model_writers' = Unlock(model_writers, t)
    /\ req' = [req EXCEPT ![t] =
                  Generated([@ EXCEPT !.generator = "local"], outcome, text)]
    /\ pc' = [pc EXCEPT ![t] = GeneratedPc(req[t], outcome)]
    /\ UNCHANGED <<cacheVars, histVars, memory_lock, api_key_set, stream>>

\* cloud_model_generate: the HTTP call to OpenRouter
CloudStep(t, outcome, text) ==
    /\ pc[t] = "cloud"
    /\ req' = [req EXCEPT ![t] =
                  Generated([@ EXCEPT !.generator = "cloud"], outcome, text)]
    /\ pc' = [pc EXCEPT ![t] = GeneratedPc(req[t], outcome)]
    /\ UNCHANGED <<cacheVars, histVars, memory_lock, model_writers, api_key_set, stream>>

\* CacheService::set: set_memory under the lock
SetMemoryStep(t) ==
    /\ pc[t] = "set_mem"
    /\ memory_cache' = SetMemory(memory_cache, settings, req[t].key,
                                 req[t].response.val, now)
    /\ memory_lock' = Unlock(memory_lock, t)
    /\ pc' = [pc EXCEPT ![t] = AfterSetMemory]
    /\ UNCHANGED <<settings, redis, sqlite, stats, now, histVars, req,
                   model_writers, api_key_set, stream>>

\* CacheService::set: redis_repo.set(key, json).await, its result dropped
AfterSetRedis(rOut) == IF settings.sqlite_repo THEN "set_sqlite" ELSE "done"

SetRedisStep(t, rOut) ==
    /\ pc[t] = "set_redis"
    /\ redis' = RedisRepoSet(redis, settings, req[t].key,
                             ToJsonString(req[t].response.val), now, rOut)
    /\ pc' = [pc EXCEPT ![t] = AfterSetRedis(rOut)]
    /\ UNCHANGED <<settings, memory_cache, sqlite, stats, now, histVars, req,
                   memory_lock, model_writers, api_key_set, stream>>

\* CacheService::set: spawn_blocking(repo.set(key, json)).await, its result
\* dropped
SetSqliteStep(t, sOut) ==
    /\ pc[t] = "set_sqlite"
    /\ sqlite' \in CacheRepoSet(sqlite, settings, req[t].key,
                                ToJsonString(req[t].response.val), now, sOut)
    /\ pc' = [pc EXCEPT ![t] = "done"]
    /\ UNCHANGED <<settings, memory_cache, redis, stats, now, histVars, req,
                   memory_lock, model_writers, api_key_set, stream>>

\* analyze_logs, generate_script and main's model loader: each takes the
\* model's write lock for its one call on the model
AuxKinds == {"logs", "script", "loader"}

AuxBegin(kind) ==
    /\ pc[AuxTask] = "idle"
    /\ pc' = [pc EXCEPT ![AuxTask] = kind]
    /\ UNCHANGED <<cacheVars, histVars, req, memory_lock, model_writers, api_key_set, stream>>

AuxAcquire ==
    /\ pc[AuxTask] \in AuxKinds
    /\ WriteFree(model_writers)
    /\ model_writers' = model_writers \cup {AuxTask}
    /\ pc' = [pc EXCEPT ![AuxTask] = "model_call"]
    /\ UNCHANGED <<cacheVars, histVars, req, memory_lock, api_key_set, stream>>

AuxFinish ==
    /\ pc[AuxTask] = "model_call"
    /\ model_writers' = Unlock(model_writers, AuxTask)
    /\ pc' = [pc EXCEPT ![AuxTask] = "done"]
    /\ UNCHANGED <<cacheVars, histVars, req, memory_lock, api_key_set, stream>>

ChatKeys == {"k1"}
Replies == {"bye"}

\* what chat returns for a request that has ended: the failure response
\* with the error's text, or the response streamed or as one body, annotated
\* with cache_hit and cache_source
Reply(r) ==
    IF r.outcome = "error"
    THEN [kind |-> "failure", error |-> "Failed to process chat request",
          details |-> r.error.val]
    ELSE [kind |-> IF r.wants_stream THEN "stream" ELSE "body",
          response |-> r.response.val.response,
          cache_hit |-> r.outcome = "hit",
          cache_source |-> IF r.outcome = "hit" THEN Some(r.source) ELSE None]

ChatStep(t, lengths, headers) ==
    \/ \E key \in ChatKeys, cache_bypass \in BOOLEAN, sampled \in BOOLEAN,
          header \in headers :
          ChatBegin(t, key, cache_bypass, sampled, WantsStream(header[1], header[2]))
    \/ AcquireMemory(t)
    \/ GetMemoryStep(t)
    \/ \E rOut \in Outcomes : GetRedisStep(t, rOut)
    \/ \E sOut \in Outcomes : GetSqliteStep(t, sOut)
    \/ PromoteStep(t)
    \/ \E length \in lengths : RouteStep(t, length)
    \/ AcquireModel(t)
    \/ \E outcome \in Outcomes, text \in Replies : GenerateStep(t, outcome, text)
    \/ SetMemoryStep(t)
    \/ \E rOut \in Outcomes : SetRedisStep(t, rOut)
    \/ \E sOut \in Outcomes : SetSqliteStep(t, sOut)

SearchPath(t) ==
    \/ \E outcome \in SearchOutcomes : SearchStep(t, outcome)
    \/ \E outcome \in Outcomes, text \in Replies : CloudStep(t, outcome, text)

\* One chat request from start to end, over every configuration of the
\* Distributed and Persistent Tiers, every message length class and every
\* outcome of its collaborators.
InitChat ==
    /\ settings \in {cfg \in Settings :
                        /\ cfg.memory_ttl_seconds = MaxTtl
                        /\ cfg.memory_cache_entries = MaxEntries}
    /\ redis \in InitialRedis(settings)
    /\ sqlite \in InitialSqlite(settings)
    /\ InitService
    /\ InitTasks
    /\ api_key_set \in BOOLEAN
    /\ callsLeft = 0

\* (stream, Accept) of a request: plain, stream flag set, stream by header
PlainHeaders == {<<FALSE, {"application/json"}>>}
Headers ==
    PlainHeaders \cup {<<TRUE, {"application/json"}>>, <<FALSE, {"text/event-stream"}>>}

NextChat ==
    \/ ChatStep("c1", MessageLengths, Headers)
    \/ SearchPath("c1")

SpecChat == InitChat /\ [][NextChat]_vars

\* Two chat requests and a log analysis, script generation or model load
\* running concurrently, with both lower tiers and the cloud key configured.

Init ==
    /\ settings \in {cfg \in Settings :
                        /\ cfg.memory_ttl_seconds = MaxTtl
                        /\ cfg.memory_cache_entries = MaxEntries
                        /\ cfg.redis_repo /\ cfg.sqlite_repo}
    /\ redis \in {EmptyStore}
    /\ sqlite \in {EmptyStore, SqliteSeed(ToJsonString(ChatJson("hello")), MaxTime + 1)}
    /\ InitService
    /\ InitTasks
    /\ api_key_set = TRUE
    /\ callsLeft = 0

Next ==
    \/ \E t \in ChatTasks : ChatStep(t, MessageLengths, PlainHeaders)
    \/ \E t \in ChatTasks : SearchPath(t)
    \/ \E kind \in AuxKinds : AuxBegin(kind)
    \/ AuxAcquire
    \/ AuxFinish

Spec == Init /\ [][Next]_vars

(***************************************************************************)
(* stream_text_response: the producer task, the channel, the consumer.     *)
(* A text is a sequence of characters; a line is one JSON object followed  *)
(* by a newline.                                                           *)
(***************************************************************************)
MaxTextLen == 5

Chars == {"a", " ", "\t"}
IsWhitespace(c) == c \in {" ", "\t"}
ResponseTexts == UNION {[1..k -> Chars] : k \in 0..MaxTextLen}

\* str::split_whitespace: the maximal runs of non-whitespace characters
RECURSIVE SplitFrom(_, _, _)
SplitFrom(text, i, word) ==
    IF i > Len(text) THEN (IF word = << >> THEN << >> ELSE <<word>>)
    ELSE IF IsWhitespace(text[i])
    THEN (IF word = << >> THEN << >> ELSE <<word>>) \o SplitFrom(text, i + 1, << >>)
    ELSE SplitFrom(text, i + 1, Append(word, text[i]))

SplitWhitespace(text) == SplitFrom(text, 1, << >>)

\* a variant that prefixes every word with a space
TokenAlwaysPrefixed(words, index) == <<" ">> \o words[index]

\* the token of the word at index (counted from 1 here, from 0 in the code)
Token(words, index) ==
    IF index = 1 THEN words[index] ELSE <<" ">> \o words[index]

ModelName == "model"
ConversationId == "conv"

\* format!("{}\n", payload) of a token object and of the terminal object
TokenLine(token) ==
    [model |-> ModelName, response |-> token, done |-> FALSE]

DoneLine(cache_hit, cache_source) ==
    [model |-> ModelName, response |-> << >>, done |-> TRUE,
     cache_hit |-> cache_hit, cache_source |-> cache_source,
     conversation_id |-> ConversationId]

\* mpsc::channel::<Bytes>(32)
ChannelCapacity == 32

\* a variant over an unbounded channel: a send never waits
SendOutcomeUnbounded(channel, rx) == IF rx = "dropped" THEN "err" ELSE "ok"

\* Sender::send(..).await: an error once the receiver is gone, otherwise it
\* waits for room
SendOutcome(channel, rx) ==
    IF rx = "dropped" THEN "err"
    ELSE IF Len(channel) >= ChannelCapacity THEN "full"
    ELSE "ok"

\* a variant that ignores a failed send
AfterTokenSendIgnoresError(outcome) == "sleep"

\* if tx.send(..).await.is_err() { return; }
AfterTokenSend(outcome) == IF outcome = "err" THEN "end" ELSE "sleep"

\* the (cache_hit, cache_source) pairs chat passes: a hit with its source, or
\* a generated response with none
Annotations == {<<TRUE, Some("redis")>>, <<FALSE, None>>}

\* stream_text_response is called: the channel is made, the producer is
\* spawned and has split the response, the receiver goes into the response
StreamStart(text, stream_flag, accept, annotation) ==
    /\ stream.pc = "none"
    /\ WantsStream(stream_flag, accept)
    /\ stream' = [pc |-> IF SplitWhitespace(text) = << >> THEN "send_done" ELSE "send",
                  response |-> text, accept |-> accept,
                  cache_hit |-> annotation[1], cache_source |-> annotation[2],
                  words |-> SplitWhitespace(text), index |-> 1,
                  channel |-> << >>, rx |-> "open", received |-> << >>,
                  content_type |-> "application/x-ndjson",
                  index_at_drop |-> 0]
    /\ UNCHANGED <<cacheVars, histVars, taskVars>>

\* the producer sends the token of its current word
ProducerSend ==
    /\ stream.pc = "send"
    /\ LET outcome == SendOutcome(stream.channel, stream.rx)
       IN /\ outcome # "full"
          /\ stream' = [stream EXCEPT
                !.pc = AfterTokenSend(outcome),
                !.channel = IF outcome = "ok"
                            THEN Append(@, TokenLine(Token(stream.words, stream.index)))
                            ELSE @]
    /\ UNCHANGED <<cacheVars, histVars, taskVars>>

\* sleep(60 ms), then the next word or the end of the loop
ProducerSleep ==
    /\ stream.pc = "sleep"
    /\ stream' = [stream EXCEPT
          !.index = @ + 1,
          !.pc = IF stream.index < Len(stream.words) THEN "send" ELSE "send_done"]
    /\ UNCHANGED <<cacheVars, histVars, taskVars>>

\* let _ = tx.send(done line).await; the task ends
ProducerSendDone ==
    /\ stream.pc = "send_done"
    /\ LET outcome == SendOutcome(stream.channel, stream.rx)
       IN /\ outcome # "full"
          /\ stream' = [stream EXCEPT
                !.pc = "end",
                !.channel = IF outcome = "ok"
                            THEN Append(@, DoneLine(stream.cache_hit, stream.cache_source))
                            ELSE @]
    /\ UNCHANGED <<cacheVars, histVars, taskVars>>

\* the response body polls the ReceiverStream and writes the line out
ConsumerReceive ==
    /\ stream.pc # "none"
    /\ stream.rx = "open"
    /\ stream.channel # << >>
    /\ stream' = [stream EXCEPT !.received = Append(@, Head(stream.channel)),
                                !.channel = Tail(@)]
    /\ UNCHANGED <<cacheVars, histVars, taskVars>>

\* the client disconnects: the response body and with it the receiver are
\* dropped, which closes the channel and discards what it still holds
ConsumerDrop ==
    /\ stream.pc # "none"
    /\ stream.rx = "open"
    /\ stream' = [stream EXCEPT !.rx = "dropped", !.channel = << >>,
                                !.index_at_drop = stream.index]
    /\ UNCHANGED <<cacheVars, histVars, taskVars>>

\* chat answers with a stream: any response text, for any request that
\* asked for one
StreamResponse ==
    /\ stream.pc = "none"
    /\ \E text \in ResponseTexts, stream_flag \in BOOLEAN, accept \in Accepts,
          annotation \in Annotations :
          StreamStart(text, stream_flag, accept, annotation)

InitStream ==
    /\ settings \in {cfg \in Settings :
                        /\ cfg.memory_ttl_seconds = MaxTtl
                        /\ cfg.memory_cache_entries = MaxEntries
                        /\ ~cfg.redis_repo /\ ~cfg.sqlite_repo}
    /\ redis = EmptyStore
    /\ sqlite = EmptyStore
    /\ InitService
    /\ InitTasks
    /\ api_key_set = FALSE
    /\ callsLeft = 0

NextStream ==
    \/ StreamResponse
    \/ ProducerSend
    \/ ProducerSleep
    \/ ProducerSendDone
    \/ ConsumerReceive
    \/ ConsumerDrop

SpecStream == InitStream /\ [][NextStream]_vars

(***************************************************************************)
(* The classifier on its own: any request, classified once.                *)
(***************************************************************************)
MaxMessageChars == 801

\* a ChatRequest as far as the classifier can see it: its message's length
\* in characters and in bytes (a character takes one byte or more) and the
\* optional fields
ChatRequests ==
    {[chars |-> n, bytes |-> n * w, max_tokens |-> m] :
        n \in 0..MaxMessageChars, w \in {1, 2}, m \in {None, Some(MaxMessageChars)}}

\* request.message.chars().count()
CharCount(request) == request.chars

Classify(request) ==
    /\ lastOp = NoOp
    /\ lastOp' = [op |-> "classify", request |-> request,
                  complexity |-> AnalyzeComplexity(CharCount(request))]
    /\ UNCHANGED <<cacheVars, recency, callsLeft, taskVars, stream>>

InitClassifier == InitStream

NextClassifier == \E request \in ChatRequests : Classify(request)

SpecClassifier == InitClassifier /\ [][NextClassifier]_vars

(***************************************************************************)
(* The Fingerprinter: utils::cache_key and the four fields chat hands it.  *)
(* Text fields are strings; a temperature is a number of hundredths.       *)
(***************************************************************************)
\* AiConfig: what a request's absent fields resolve to (each can be set from
\* the environment; short values stand for the shipped defaults)
DefaultModelName == "c"
DefaultTemperature == 50
DefaultMaxTokens == 12

\* Option::unwrap_or
UnwrapOr(opt, default) == IF opt.some THEN opt.val ELSE default

Digit(d) ==
    CASE d = 0 -> "0" [] d = 1 -> "1" [] d = 2 -> "2" [] d = 3 -> "3"
      [] d = 4 -> "4" [] d = 5 -> "5" [] d = 6 -> "6" [] d = 7 -> "7"
      [] d = 8 -> "8" [] d = 9 -> "9"

\* usize::to_string: decimal, no leading zeros
RECURSIVE UsizeToString(_)
UsizeToString(n) ==
    IF n < 10 THEN Digit(n) ELSE UsizeToString(n \div 10) \o Digit(n % 10)

\* f32::to_string of h hundredths: the shortest decimal text, so 0.50 is
\* "0.5" and 1.00 is "1"
F32ToString(h) ==
    IF h % 100 = 0 THEN UsizeToString(h \div 100)
    ELSE IF h % 10 = 0
    THEN UsizeToString(h \div 100) \o "." \o Digit((h % 100) \div 10)
    ELSE UsizeToString(h \div 100) \o "." \o Digit((h % 100) \div 10)
                                   \o Digit(h % 10)

\* a message of n characters
RECURSIVE Repeat(_, _)
Repeat(c, n) ==
    IF n = 0 THEN ""
    ELSE IF n % 2 = 0 THEN LET half == Repeat(c, n \div 2) IN half \o half
    ELSE Repeat(c, n - 1) \o c

\* a message of two characters and one that is classified High
ShortMessage == "hi"
LongMessage == Repeat("h", HighLimit)

\* format!("{:x}", md5::compute(..)): the digest of a text.  Distinct texts
\* of the model have distinct digests; "k1" and "k2" name the digests of the
\* two texts whose entries the tiers of SpecRequests hold.
Md5Hex(text) ==
    CASE text = ShortMessage \o "m0.510" -> "k1"
      [] text = LongMessage \o "m0.510" -> "k2"
      [] OTHER -> "md5:" \o text

\* cache_key, lines 2-5: every part is pushed onto one String
RECURSIVE PushAll(_, _)
PushAll(combined, parts) ==
    IF parts = << >> THEN combined
    ELSE PushAll(combined \o Head(parts), Tail(parts))

CacheKey(parts) == Md5Hex(PushAll("", parts))

\* a variant that hashes the bypass flag along with the four fields
ChatKeyPartsWithBypass(request, model_name, temperature, max_tokens) ==
    <<request.message, model_name, F32ToString(temperature),
      UsizeToString(max_tokens), IF request.cache_bypass.some THEN "true" ELSE "">>

\* chat, lines 36-41: the parts handed to cache_key
ChatKeyParts(request, model_name, temperature, max_tokens) ==
    <<request.message, model_name, F32ToString(temperature),
      UsizeToString(max_tokens)>>

\* chat, lines 29-41: the absent fields resolved, then the key
ResolvedModelName(request, ai) == UnwrapOr(request.model, ai.model_name)
ResolvedTemperature(request, ai) == UnwrapOr(request.temperature, ai.temperature)
ResolvedMaxTokens(request, ai) == UnwrapOr(request.max_tokens, ai.max_tokens)

ChatCacheKey(request, ai) ==
    CacheKey(ChatKeyParts(request, ResolvedModelName(request, ai),
                          ResolvedTemperature(request, ai),
                          ResolvedMaxTokens(request, ai)))

AiConfig ==
    [model_name |-> DefaultModelName, temperature |-> DefaultTemperature,
     max_tokens |-> DefaultMaxTokens]

\* the fields of a ChatRequest that chat does not hand to cache_key
Extras ==
    {[stream |-> None, cache_bypass |-> None, conversation_id |-> None],
     [stream |-> Some(TRUE), cache_bypass |-> None, conversation_id |-> None],
     [stream |-> None, cache_bypass |-> Some(TRUE), conversation_id |-> None],
     [stream |-> None, cache_bypass |-> None, conversation_id |-> Some("id1")]}

\* ChatRequests whose fields split the same text in different places
FingerprintRequests ==
    {[message |-> m, model |-> mo, temperature |-> te, max_tokens |-> mt,
      stream |-> x.stream, cache_bypass |-> x.cache_bypass,
      conversation_id |-> x.conversation_id] :
        m \in {"a", "ab"}, mo \in {None, Some("c"), Some("bc")},
        te \in {None, Some(51)}, mt \in {None, Some(2)}, x \in Extras}

\* chat computes a request's key; the history keeps the request before it
Fingerprint(request) ==
    /\ lastOp' = [op |-> "cache_key", request |-> request,
                  key |-> ChatCacheKey(request, AiConfig),
                  previous |-> IF lastOp.op = "cache_key"
                               THEN Some([request |-> lastOp.request,
                                          key |-> lastOp.key])
                               ELSE None]
    /\ UNCHANGED <<cacheVars, recency, callsLeft, taskVars, stream>>

InitFingerprint == InitStream

NextFingerprint == \E request \in FingerprintRequests : Fingerprint(request)

SpecFingerprint == InitFingerprint /\ [][NextFingerprint]_vars

(***************************************************************************)
(* The Persistent Tier on its own: CacheRepo's calls, one at a time, on a  *)
(* table of up to three rows.  An outcome of "err" is a call that fails    *)
(* when it opens the database file.                                        *)
(***************************************************************************)
\* CacheRepo calls made in one run
MaxRepoCalls == 2

\* ttl_days from 0, byte budgets of none (0), one row and two rows
RepoSettings ==
    {[cfg EXCEPT !.sqlite_ttl_days = d, !.sqlite_max_size = b] :
        cfg \in {c \in Settings : /\ ~c.redis_repo /\ c.sqlite_repo
                                  /\ c.memory_ttl_seconds = MaxTtl
                                  /\ c.memory_cache_entries = MaxEntries},
        d \in 0 .. MaxTtl, b \in {0, 1, 2}}

RepoRow(str, e, h) ==
    Some([value_json |-> str, created_at |-> 0, expires_at |-> e, hits |-> h])

\* tables the file can hold when the process starts: none, a row that
\* expires at 1 and one that outlives the run, and these with a row that has
\* expired already
InitialTables ==
    {EmptyStore,
     [EmptyStore EXCEPT !["k1"] = RepoRow(ToJsonString(ChatJson("hello")), 1, 0),
                        !["k2"] = RepoRow(Garbage, MaxTime + 1, 2)],
     [EmptyStore EXCEPT !["k1"] = RepoRow(ToJsonString(ChatJson("hello")), 1, 0),
                        !["k2"] = RepoRow(Garbage, MaxTime + 1, 2),
                        !["k3"] = RepoRow(ToJsonString(OtherJson), 0, 1)]}

\* one whole CacheRepo::get(key); previous: the set that returned right
\* before it, if the call before it was one
RepoGet(key, outcome) ==
    /\ callsLeft > 0
    /\ callsLeft' = callsLeft - 1
    /\ LET g == CacheRepoGet(sqlite, key, now, outcome)
       IN /\ sqlite' = g.table
          /\ lastOp' = [op |-> "repo_get", key |-> key, ok |-> g.ok,
                        returned |-> g.opt, before |-> sqlite, at |-> now,
                        previous |-> IF lastOp.op = "repo_set"
                                     THEN Some([key |-> lastOp.key,
                                                ok |-> lastOp.ok,
                                                value_json |-> lastOp.value_json,
                                                upserted |-> lastOp.upserted])
                                     ELSE None]
    /\ UNCHANGED <<settings, memory_cache, redis, stats, now, recency, taskVars,
                   stream>>

\* one whole CacheRepo::set(key, value_json); the history keeps the table as
\* the INSERT statement left it, before cleanup_if_needed
RepoSet(key, str, outcome) ==
    /\ callsLeft > 0
    /\ callsLeft' = callsLeft - 1
    /\ sqlite' \in CacheRepoSet(sqlite, settings, key, str, now, outcome)
    /\ lastOp' = [op |-> "repo_set", key |-> key, ok |-> outcome = "ok",
                  value_json |-> str, before |-> sqlite, at |-> now,
                  upserted |-> IF outcome = "ok"
                               THEN Upsert(sqlite, settings, key, str, now)
                               ELSE sqlite]
    /\ UNCHANGED <<settings, memory_cache, redis, stats, now, recency, taskVars,
                   stream>>

\* one whole CacheRepo::cleanup_expired(); again: the call before it was a
\* cleanup_expired that succeeded at the same instant
RepoCleanupExpired(outcome) ==
    /\ callsLeft > 0
    /\ callsLeft' = callsLeft - 1
    /\ LET c == CleanupExpired(sqlite, now)
       IN /\ sqlite' = IF outcome = "ok" THEN c.table ELSE sqlite
          /\ lastOp' = [op |-> "repo_cleanup", ok |-> outcome = "ok",
                        returned |-> IF outcome = "ok" THEN Some(c.rows) ELSE None,
                        before |-> sqlite, at |-> now,
                        again |-> lastOp.op = "repo_cleanup" /\ lastOp.ok]
    /\ UNCHANGED <<settings, memory_cache, redis, stats, now, recency, taskVars,
                   stream>>

InitRepo ==
    /\ settings \in RepoSettings
    /\ redis = EmptyStore
    /\ sqlite \in InitialTables
    /\ InitService
    /\ InitTasks
    /\ api_key_set = FALSE
    /\ callsLeft = MaxRepoCalls

NextRepo ==
    \/ \E k \in Keys, outcome \in Outcomes : RepoGet(k, outcome)
    \/ \E k \in Keys, outcome \in Outcomes :
          RepoSet(k, ToJsonString(ChatJson("bye")), outcome)
    \/ \E outcome \in Outcomes : RepoCleanupExpired(outcome)
    \/ Tick

SpecRepo == InitRepo /\ [][NextRepo]_vars

(***************************************************************************)
(* The size control of the Persistent Tier, on tables that hold about one  *)
(* batch of rows: CacheRepo::set on a table of up to EvictBatch + 2 rows.  *)
(***************************************************************************)
\* CacheRepo::set calls made in one run
MaxEvictionSets == 1

ManyKeys == 1 .. EvictBatch + 2

\* a table whose keys 1..n hold rows, all created at instant 1 but for two
\* created at instant 2: the two highest keys or (flip) the two lowest
BlockTable(n, flip) ==
    [k \in ManyKeys |->
        IF k <= n
        THEN Some([value_json |-> ToJsonString(ChatJson("hello")),
                   created_at |-> IF (flip /\ k <= 2) \/ (~flip /\ k >= n - 1)
                                  THEN 2 ELSE 1,
                   expires_at |-> MaxTime + EvictBatch, hits |-> 0])
        ELSE None]

\* byte budgets of none (0), one row, one batch and one batch and a row
EvictionSettings ==
    {[cfg EXCEPT !.sqlite_max_size = b] :
        cfg \in {c \in Settings : /\ ~c.redis_repo /\ c.sqlite_repo
                                  /\ c.memory_ttl_seconds = MaxTtl
                                  /\ c.memory_cache_entries = MaxEntries},
        b \in {0, 1, EvictBatch, EvictBatch + 1}}

\* the table holds two rows, or a row less than a batch, a batch, or a row
\* more; the clock stands at the instant the newest row was created or later
InitEviction ==
    /\ settings \in EvictionSettings
    /\ redis = EmptyStore
    /\ \E n \in {2, EvictBatch - 1, EvictBatch, EvictBatch + 1}, flip \in BOOLEAN :
          sqlite = BlockTable(n, flip)
    /\ memory_cache = <<>>
    /\ stats = [total_requests |-> 0, memory_hits |-> 0,
                redis_hits |-> 0, sqlite_hits |-> 0]
    /\ now \in {2, 3}
    /\ lastOp = NoOp
    /\ recency = <<>>
    /\ InitTasks
    /\ api_key_set = FALSE
    /\ callsLeft = MaxEvictionSets

NextEviction ==
    \E k \in {1, EvictBatch, EvictBatch + 1, EvictBatch + 2}, outcome \in Outcomes :
        RepoSet(k, ToJsonString(ChatJson("bye")), outcome)

SpecEviction == InitEviction /\ [][NextEviction]_vars

(***************************************************************************)
(* The chat handler as a whole, one request after the other: fingerprint,  *)
(* sampling, cache probe, annotation of a hit, routing, generation,        *)
(* annotation and write-back of the result.  The cached payloads are whole *)
(* ChatResponses.  The tiers answer without faults.                        *)
(***************************************************************************)
\* a ChatResponse, as chat reads and writes its fields
ChatResponse(response, conversation_id, cache_hit, cache_source, timestamp) ==
    [response |-> response, conversation_id |-> conversation_id,
     cache_hit |-> cache_hit, cache_source |-> cache_source,
     timestamp |-> timestamp]

\* serde_json::to_value(&chat_response): the JSON object of its fields
ToValue(cr) ==
    [kind |-> "chat", response |-> cr.response,
     conversation_id |-> cr.conversation_id, cache_hit |-> cr.cache_hit,
     cache_source |-> cr.cache_source, timestamp |-> cr.timestamp]

\* serde_json::from_value::<ChatResponse>(value), for a value that is one
FromValue(v) ==
    ChatResponse(v.response, v.conversation_id, v.cache_hit, v.cache_source,
                 v.timestamp)

\* Uuid::new_v4(): no two draws give the same id
Uuid(who, n) == "uuid-" \o who \o Digit(n)

\* a variant that keeps the conversation a cached payload was written for
AnnotateHitKeepsConversation(cached_response, source, conversation_id, t) ==
    [cached_response EXCEPT !.cache_hit = TRUE, !.cache_source = Some(source),
                            !.timestamp = t]

\* chat, lines 60-63
AnnotateHit(cached_response, source, conversation_id, t) ==
    [cached_response EXCEPT !.cache_hit = TRUE, !.cache_source = Some(source),
                            !.conversation_id = conversation_id,
                            !.timestamp = t]

\* chat, lines 100-102
AnnotateGenerated(chat_response, conversation_id) ==
    [chat_response EXCEPT !.conversation_id = conversation_id,
                          !.cache_hit = FALSE, !.cache_source = None]

Ok(cr) == [ok |-> TRUE, response |-> Some(cr), error |-> None]
Err(e) == [ok |-> FALSE, response |-> None, error |-> Some(e)]

\* the ChatResponses a generation collaborator can hand back for a text: it
\* names the request's conversation, or one it drew itself, and sets the
\* cache fields as it likes
CollaboratorResponses(text, request, n, t) ==
    {ChatResponse(text, UnwrapOr(request.conversation_id, Uuid("g", n)),
                  a[1], a[2], t) : a \in Annotations}

\* local_model_generate -> Result<ChatResponse>
LocalResults(request, n, t) ==
    {Err(GenerationError)}
        \cup {Ok(cr) : cr \in CollaboratorResponses("hello", request, n, t)}

\* what the POST to OpenRouter can come to: no reply at all, or a status
\* and a body that is no JSON, JSON without a string at
\* choices[0].message.content, or JSON with one
NoContent == "No response from OpenRouter"
CloudError == "cloud call failed"

CloudReplies ==
    {[sent |-> FALSE, status |-> 0, json |-> FALSE, content |-> None]}
        \cup {[sent |-> TRUE, status |-> st, json |-> b[1], content |-> b[2]] :
                 st \in {200, 304, 500},
                 b \in {<<FALSE, None>>, <<TRUE, None>>, <<TRUE, Some("hello")>>}}

\* cloud_model_generate, lines 108-132: send()?, error_for_status()? (an
\* error for 400..599), json()? (an error for a body that is no JSON), then
\* the content or the fixed text
CloudResults(reply, request, n, t) ==
    IF ~reply.sent THEN {Err(CloudError)}
    ELSE IF reply.status \in 400 .. 599 THEN {Err(CloudError)}
    ELSE IF ~reply.json THEN {Err(CloudError)}
    ELSE {Ok(cr) : cr \in CollaboratorResponses(UnwrapOr(reply.content, NoContent),
                                                request, n, t)}

\* chat, lines 79-96: what the routed generation can come to
GenerationResults(request, complexity, n, t) ==
    IF complexity = "Low"
    THEN {[searched |-> "none", generator |-> "local", cloud |-> None,
           result |-> r] : r \in LocalResults(request, n, t)}
    ELSE UNION {
        IF AfterSearch(complexity, o) = "done"
        THEN {[searched |-> o, generator |-> "none", cloud |-> None,
               result |-> Err(SearchError)]}
        ELSE IF AfterSearch(complexity, o) = "cloud"
        THEN UNION {{[searched |-> o, generator |-> "cloud",
                      cloud |-> Some(reply), result |-> r] :
                        r \in CloudResults(reply, request, n, t)} :
                    reply \in CloudReplies}
        ELSE {[searched |-> o, generator |-> "local", cloud |-> None,
               result |-> r] : r \in LocalResults(request, n, t)}
        : o \in {"err", "results"}}

\* the requests: the short or the long message, with or without a
\* conversation, with or without cache_bypass
E2ERequests ==
    {[message |-> m, model |-> Some("m"), temperature |-> Some(50),
      max_tokens |-> Some(10), stream |-> None, cache_bypass |-> b,
      conversation_id |-> c] :
        m \in {ShortMessage, LongMessage}, b \in {None, Some(TRUE)},
        c \in {None, Some("id1")}}

\* the tiers hold nothing
Cold == memory_cache = << >> /\ redis = EmptyStore /\ sqlite = EmptyStore

\* history: the request served just before this one, no time having passed
PreviousChat ==
    IF lastOp.op = "chat"
    THEN Some([request |-> lastOp.request, use_cache |-> lastOp.use_cache,
               cold |-> lastOp.cold, outcome |-> lastOp.outcome,
               complexity |-> lastOp.complexity,
               response |-> IF lastOp.chat_response.some
                            THEN Some(lastOp.chat_response.val.response)
                            ELSE None])
    ELSE None

\* a variant that probes the cache whatever the decision was
ProbeAlways(key, use_cache) ==
    CacheServiceGet(settings, memory_cache, redis, sqlite, stats, key, now,
                    "ok", "ok")

\* chat, lines 57-58: CacheService::get, or nothing without use_cache
Probe(key, use_cache) ==
    IF use_cache
    THEN CacheServiceGet(settings, memory_cache, redis, sqlite, stats, key, now,
                         "ok", "ok")
    ELSE [result |-> None, cache |-> memory_cache, table |-> sqlite,
          stats |-> stats, probed |-> << >>]

\* one whole chat(request); sampled is the outcome of the probability draw
Chat(request, sampled) ==
    /\ callsLeft > 0
    /\ callsLeft' = callsLeft - 1
    /\ LET conversation_id ==
               UnwrapOr(request.conversation_id, Uuid("c", callsLeft))
           key == ChatCacheKey(request, AiConfig)
           use_cache == ~UnwrapOr(request.cache_bypass, FALSE) /\ sampled
           g == Probe(key, use_cache)
           record == [op |-> "chat", request |-> request,
                      conversation_id |-> conversation_id, key |-> key,
                      sampled |-> sampled, use_cache |-> use_cache,
                      got |-> g.result, cold |-> Cold,
                      previous |-> PreviousChat]
       IN IF g.result.some /\ FromValueOk(g.result.val.value)
          THEN /\ memory_cache' = g.cache
               /\ sqlite' = g.table
               /\ stats' = g.stats
               /\ redis' = redis
               /\ lastOp' =
                     [outcome |-> "hit", complexity |-> "none",
                      searched |-> "none", generator |-> "none",
                      cloud |-> None, error |-> None, set |-> 0,
                      chat_response |->
                          Some(AnnotateHit(FromValue(g.result.val.value),
                                           g.result.val.source,
                                           conversation_id, now))] @@ record
          ELSE \E gen \in GenerationResults(
                              request, AnalyzeComplexity(Len(request.message)),
                              callsLeft, now) :
                  LET wrote == gen.result.ok /\ use_cache
                      chat_response ==
                          IF gen.result.ok
                          THEN Some(AnnotateGenerated(gen.result.response.val,
                                                      conversation_id))
                          ELSE None
                      value == ToValue(chat_response.val)
                  IN /\ stats' = g.stats
                     /\ memory_cache' =
                           IF wrote
                           THEN SetMemory(g.cache, settings, key, value, now)
                           ELSE g.cache
                     /\ redis' =
                           IF wrote /\ settings.redis_repo
                           THEN RedisRepoSet(redis, settings, key,
                                             ToJsonString(value), now, "ok")
                           ELSE redis
                     /\ IF wrote /\ settings.sqlite_repo
                        THEN sqlite' \in CacheRepoSet(g.table, settings, key,
                                                      ToJsonString(value), now, "ok")
                        ELSE sqlite' = g.table
                     /\ lastOp' =
                           [outcome |-> IF gen.result.ok THEN "generated"
                                        ELSE "error",
                            complexity |->
                                AnalyzeComplexity(Len(request.message)),
                            searched |-> gen.searched,
                            generator |-> gen.generator, cloud |-> gen.cloud,
                            error |-> gen.result.error,
                            set |-> IF wrote THEN 1 ELSE 0,
                            chat_response |-> chat_response] @@ record
    /\ UNCHANGED <<settings, now, recency, taskVars, stream>>

\* what the tiers can hold when the process starts, under the short
\* message's key: a payload this service wrote for another conversation, or
\* one whose cache fields say otherwise
StalePayload(cache_hit, cache_source) ==
    ToJsonString(ToValue(ChatResponse("old", "id0", cache_hit, cache_source, 0)))

InitRequests ==
    /\ settings \in {cfg \in Settings : cfg.memory_cache_entries = MaxEntries}
    /\ redis \in IF settings.redis_repo
                 THEN {EmptyStore, RedisSeed(StalePayload(TRUE, Some("sqlite")))}
                 ELSE {EmptyStore}
    /\ sqlite \in IF settings.sqlite_repo
                  THEN {EmptyStore, SqliteSeed(StalePayload(FALSE, None), MaxTime + 1)}
                  ELSE {EmptyStore}
    /\ InitService
    /\ InitTasks
    /\ api_key_set = TRUE
    /\ callsLeft = Cardinality(ChatTasks)

NextRequests ==
    \/ \E request \in E2ERequests, sampled \in BOOLEAN : Chat(request, sampled)
    \/ Tick

SpecRequests == InitRequests /\ [][NextRequests]_vars

(***************************************************************************)
(* What chat hands the client for a served request: the arguments of       *)
(* stream_text_response, the response text alone for Accept: text/plain,   *)
(* or the ChatResponse as JSON.                                            *)
(***************************************************************************)
AcceptHeaders == Accepts \cup {{"text/plain"}}

\* chat, lines 64-74 and 109-119, and respond_chat
Delivered(op, stream_flag, accept) ==
    LET cr == op.chat_response.val IN
    IF WantsStream(stream_flag, accept)
    THEN [kind |-> "stream", response |-> cr.response,
          cache_hit |-> op.outcome = "hit",
          cache_source |-> IF op.outcome = "hit" THEN cr.cache_source ELSE None,
          conversation_id |-> op.conversation_id]
    ELSE IF "text/plain" \in accept
    THEN [kind |-> "plain", response |-> cr.response]
    ELSE [kind |-> "json", response |-> cr.response,
          cache_hit |-> cr.cache_hit, cache_source |-> cr.cache_source,
          conversation_id |-> cr.conversation_id]

(***************************************************************************)
(* The stream producer against a slow consumer: responses of more words    *)
(* than the channel has room for.  The spawned producer task is scheduled  *)
(* (tokio runs a ready task and a sleep ends), and a consumer that has not *)
(* dropped the receiver goes on polling it.                                *)
(***************************************************************************)
\* a response of n words, each the letter a, separated by single spaces
WordsText(n) ==
    IF n = 0 THEN << >>
    ELSE [i \in 1 .. (2 * n - 1) |-> IF i % 2 = 1 THEN "a" ELSE " "]

WordCounts == {0, 1, ChannelCapacity, ChannelCapacity + 1, ChannelCapacity + 2}

\* chat answers with a stream of one of the long responses
LongStreamResponse ==
    /\ stream.pc = "none"
    /\ \E n \in WordCounts, annotation \in Annotations :
          StreamStart(WordsText(n), TRUE, {}, annotation)

NextBuffer ==
    \/ LongStreamResponse
    \/ ProducerSend
    \/ ProducerSleep
    \/ ProducerSendDone
    \/ ConsumerReceive
    \/ ConsumerDrop

InitBuffer == InitStream

SpecBuffer ==
    /\ InitBuffer
    /\ [][NextBuffer]_vars
    /\ WF_vars(ProducerSend)
    /\ WF_vars(ProducerSleep)
    /\ WF_vars(ProducerSendDone)
    /\ WF_vars(ConsumerReceive)

(***************************************************************************)
(* Concurrent requests over two keys, each step by step, a worker taking   *)
(* up one further request when it has answered one.  Every request is     *)
(* short (the Low path).                                                   *)
(***************************************************************************)
\* chat has answered; the worker's next request starts from scratch
FinishRequest(t) ==
    /\ pc[t] = "done"
    /\ callsLeft > 0
    /\ callsLeft' = callsLeft - 1
    /\ lastOp' = [op |-> "finished", task |-> t, request |-> req[t]]
    /\ pc' = [pc EXCEPT ![t] = "idle"]
    /\ req' = [req EXCEPT ![t] = NewRequest]
    /\ UNCHANGED <<cacheVars, recency, memory_lock, model_writers, api_key_set,
                   stream>>

\* a request for the second key, which uses the cache
BeginOther(t) == ChatBegin(t, "k2", FALSE, TRUE, FALSE)

InitRace ==
    /\ settings \in {cfg \in Settings : cfg.memory_ttl_seconds = MaxTtl}
    /\ redis \in IF settings.redis_repo
                 THEN {EmptyStore, RedisSeed(ToJsonString(ChatJson("hello"))),
                       RedisSeed(ToJsonString(OtherJson))}
                 ELSE {EmptyStore}
    /\ sqlite \in IF settings.sqlite_repo
                  THEN {EmptyStore,
                        SqliteSeed(ToJsonString(ChatJson("hello")), MaxTime + 1)}
                  ELSE {EmptyStore}
    /\ InitService
    /\ InitTasks
    /\ api_key_set = FALSE
    /\ callsLeft = Cardinality(ChatTasks) - 1

NextRace ==
    \/ \E t \in ChatTasks : ChatStep(t, {LowLimit - 1}, PlainHeaders)
    \/ \E t \in ChatTasks : BeginOther(t)
    \/ \E t \in ChatTasks : FinishRequest(t)

SpecRace == InitRace /\ [][NextRace]_vars

(***************************************************************************)
(* Properties of the cache tiers.                                          *)
(***************************************************************************)
\* the step is one CacheService call
IsCall == callsLeft' = callsLeft - 1

FromLowerTier(result) == result.some /\ result.val.source \in {"redis", "sqlite"}

\* the last call was a get of a key that the call just before it, at the same
\* instant, had served from Redis or SQLite
GetAfterPromotion ==
    /\ lastOp.op = "get"
    /\ lastOp.follows.some
    /\ lastOp.follows.val.op = "get"
    /\ FromLowerTier(lastOp.follows.val.result)

PromotedAndStored ==
    (lastOp.op = "get" /\ FromLowerTier(lastOp.result)) =>
        /\ Contains(memory_cache, lastOp.key)
        /\ EntryOf(memory_cache, lastOp.key).value = lastOp.result.val.value

ServedFromMemoryAgain ==
    /\ lastOp.result = Hit(lastOp.follows.val.result.val.value, "memory")
    /\ lastOp.probed = <<"memory">>

\* C1 as stated: a get that Redis or SQLite served leaves the value in the
\* Memory Tier, and the get of the same key that immediately follows returns
\* the same value from memory, probing no other tier.
C1_PromotionAsStated ==
    /\ PromotedAndStored
    /\ GetAfterPromotion => ServedFromMemoryAgain

\* C1 amended: the same, when memory_ttl_seconds is at least 1 (with a TTL of
\* 0 the promoted entry is stored already expired).
C1_Promotion ==
    /\ PromotedAndStored
    /\ (GetAfterPromotion /\ settings.memory_ttl_seconds > 0) => ServedFromMemoryAgain

C1_Witness ==
    /\ GetAfterPromotion
    /\ lastOp.follows.val.result.val.source = "sqlite"
    /\ lastOp.result.some
    /\ lastOp.result.val.source = "memory"

\* what the Memory and Persistent Tiers alone answer for key, the SQLite call
\* ending with outcome sOut
TwoTierAnswer(cache, table, cfg, key, t, sOut) ==
    IF Contains(cache, key) /\ EntryOf(cache, key).expires_at > t
    THEN Hit(EntryOf(cache, key).value, "memory")
    ELSE IF /\ cfg.sqlite_repo
            /\ sOut = "ok"
            /\ table[key].some
            /\ table[key].val.expires_at > t
            /\ table[key].val.value_json[1] = "json"
    THEN Hit(table[key].val.value_json[2], "sqlite")
    ELSE None

\* the Distributed Tier cannot serve key: unconfigured, failing, or holding
\* nothing that parses
RedisUnusable(key, rOut) ==
    \/ ~settings.redis_repo
    \/ rOut = "err"
    \/ ~RedisLive(redis, key, now)
    \/ redis[key].val.value[1] # "json"

\* C6: when the Distributed Tier is unconfigured, fails or holds an unparsable
\* value, get answers exactly what the Memory and Persistent Tiers alone
\* answer, and its answer is a hit or absent, never an error.
C6_TierIsolation ==
    [][(IsCall /\ lastOp'.op = "get") =>
          /\ lastOp'.result = None \/ lastOp'.result.some
          /\ RedisUnusable(lastOp'.key, lastOp'.rOut) =>
                lastOp'.result = TwoTierAnswer(memory_cache, sqlite, settings,
                                               lastOp'.key, now, lastOp'.sOut)]_vars

\* a get whose Redis command failed although Redis held a good value, and
\* which SQLite then served
C6_Witness ==
    /\ lastOp.op = "get"
    /\ lastOp.rOut = "err"
    /\ RedisLive(redis, lastOp.key, now)
    /\ redis[lastOp.key].val.value[1] = "json"
    /\ lastOp.result.some
    /\ lastOp.result.val.source = "sqlite"

MemoryHolds(key) ==
    Contains(memory_cache, key) /\ EntryOf(memory_cache, key).expires_at > now

RedisHolds(key) == settings.redis_repo /\ RedisLive(redis, key, now)

SqliteHolds(key) ==
    settings.sqlite_repo /\ sqlite[key].some /\ sqlite[key].val.expires_at > now

\* the text a tier holds for key
HeldText(tier, key) ==
    IF tier = "memory" THEN ToJsonString(EntryOf(memory_cache, key).value)
    ELSE IF tier = "redis" THEN redis[key].val.value
    ELSE sqlite[key].val.value_json

TierOrder ==
    <<"memory">> \o (IF settings.redis_repo THEN <<"redis">> ELSE <<>>)
                 \o (IF settings.sqlite_repo THEN <<"sqlite">> ELSE <<>>)

\* the configured tiers, in probe order, up to and including tier
RECURSIVE UpTo(_, _)
UpTo(order, tier) ==
    IF order = <<>> THEN <<>>
    ELSE IF Head(order) = tier THEN <<tier>>
    ELSE <<Head(order)>> \o UpTo(Tail(order), tier)

FirstHolding(key) ==
    IF MemoryHolds(key) THEN "memory"
    ELSE IF RedisHolds(key) THEN "redis"
    ELSE IF SqliteHolds(key) THEN "sqlite"
    ELSE "none"

\* C10 as stated: get returns the value and source of the first tier, in the
\* order Memory, Distributed, Persistent, that holds a live entry for the
\* key, and absent only when no configured tier holds one.
C10_ProbeOrderAsStated ==
    [][(IsCall /\ lastOp'.op = "get") =>
          LET key == lastOp'.key
              tier == FirstHolding(key)
          IN IF tier = "none" THEN lastOp'.result = None
             ELSE /\ lastOp'.result.some
                  /\ lastOp'.result.val.source = tier
                  /\ ToJsonString(lastOp'.result.val.value) = HeldText(tier, key)]_vars

\* a tier serves key: it holds a live entry, its read succeeds and the text
\* read parses as JSON
RedisServes(key, rOut) ==
    RedisHolds(key) /\ rOut = "ok" /\ redis[key].val.value[1] = "json"

SqliteServes(key, sOut) ==
    SqliteHolds(key) /\ sOut = "ok" /\ sqlite[key].val.value_json[1] = "json"

FirstServing(key, rOut, sOut) ==
    IF MemoryHolds(key) THEN "memory"
    ELSE IF RedisServes(key, rOut) THEN "redis"
    ELSE IF SqliteServes(key, sOut) THEN "sqlite"
    ELSE "none"

\* C10 amended: get probes Memory, Distributed, Persistent in that order,
\* stops at the first tier whose read succeeds with a live entry that parses
\* as JSON, and returns that tier's value and source; it returns absent
\* exactly when no configured tier serves the key in this sense.
C10_ProbeOrder ==
    [][(IsCall /\ lastOp'.op = "get") =>
          LET key == lastOp'.key
              tier == FirstServing(key, lastOp'.rOut, lastOp'.sOut)
          IN IF tier = "none"
             THEN lastOp'.result = None /\ lastOp'.probed = TierOrder
             ELSE /\ lastOp'.result.some
                  /\ lastOp'.result.val.source = tier
                  /\ ToJsonString(lastOp'.result.val.value) = HeldText(tier, key)
                  /\ lastOp'.probed = UpTo(TierOrder, tier)]_vars

\* Redis served a key for which SQLite held a live entry as well
C10_Witness ==
    /\ lastOp.op = "get"
    /\ lastOp.result.some
    /\ lastOp.result.val.source = "redis"
    /\ SqliteHolds(lastOp.key)
    /\ sqlite[lastOp.key].val.value_json[1] = "json"

(***************************************************************************)
(* Properties of the Memory Tier.                                          *)
(***************************************************************************)
\* the last call was a get of the key that the call just before it, at the
\* same instant, had set
GetAfterSet ==
    /\ lastOp.op = "get"
    /\ lastOp.follows.some
    /\ lastOp.follows.val.op = "set"

ReturnsWhatWasSet ==
    lastOp.result = Hit(lastOp.follows.val.result.val.value, "memory")

\* a set leaves an entry that expires memory_ttl_seconds after the write
WrittenWithTtl ==
    lastOp.op = "set" =>
        /\ Contains(memory_cache, lastOp.key)
        /\ EntryOf(memory_cache, lastOp.key) =
              [key |-> lastOp.key, value |-> lastOp.result.val.value,
               expires_at |-> now + settings.memory_ttl_seconds]

\* a get at or after an entry's expiry does not return it and removes it;
\* the key is then held only if this very get promoted a fresh entry for it
LazyExpiry ==
    (/\ IsCall
     /\ lastOp'.op = "get"
     /\ Contains(memory_cache, lastOp'.key)
     /\ EntryOf(memory_cache, lastOp'.key).expires_at <= now) =>
        /\ ~(lastOp'.result.some /\ lastOp'.result.val.source = "memory")
        /\ \/ ~Contains(memory_cache', lastOp'.key)
           \/ /\ FromLowerTier(lastOp'.result)
              /\ EntryOf(memory_cache', lastOp'.key) =
                    [key |-> lastOp'.key, value |-> lastOp'.result.val.value,
                     expires_at |-> now + settings.memory_ttl_seconds]

\* C8 as stated: an entry written with TTL T at time t is returned by a get
\* issued immediately after the write, and every get at a time >= t + T is a
\* miss of the Memory Tier that removes the entry.
C8_ExpiryAsStated ==
    /\ [](WrittenWithTtl /\ (GetAfterSet => ReturnsWhatWasSet))
    /\ [][LazyExpiry]_vars

\* C8 amended: the same for a TTL T of at least 1 second (with T = 0 the get
\* issued immediately after the write is already at time >= t + T, and
\* misses).
C8_Expiry ==
    /\ [](WrittenWithTtl /\
          ((GetAfterSet /\ settings.memory_ttl_seconds > 0) => ReturnsWhatWasSet))
    /\ [][LazyExpiry]_vars

\* a get found the entry expired, removed it and missed
C8_Witness ==
    /\ lastOp.op = "get"
    /\ lastOp.key \in lastOp.removed
    /\ ~lastOp.result.some
    /\ settings.memory_ttl_seconds > 0

\* the step writes lastOp'.key into the Memory Tier: a set, or a get that
\* promotes
WritesMemory == IsCall /\ (lastOp'.op = "set" \/ FromLowerTier(lastOp'.result))

\* the keys held, least recently used first, when the write's put runs (a
\* promoting get has popped the key's expired entry, if any)
HeldAtPut ==
    IF lastOp'.op = "set" THEN recency
    ELSE SelectSeq(recency, LAMBDA k : k # lastOp'.key)

\* C9: a write of a new key into a full Memory Tier removes exactly one
\* entry, the least recently used one (every get that hits, set and
\* promotion of a key makes it the most recently used); a write of a key
\* already held, or into a tier that is not full, removes nothing; the
\* entries that stay are unchanged.
C9_LruEviction ==
    [][WritesMemory =>
          LET key == lastOp'.key
              held == Range(HeldAtPut)
              cap == MemoryCapacity(settings.memory_cache_entries)
              after == MemoryKeys(memory_cache')
          IN /\ Len(memory_cache') = Cardinality(after)
             /\ IF key \in held THEN after = held
                ELSE IF Cardinality(held) = cap
                THEN after = (held \ {Head(HeldAtPut)}) \cup {key}
                ELSE after = held \cup {key}
             /\ \A k \in after \ {key} :
                   EntryOf(memory_cache', k) = EntryOf(memory_cache, k)]_vars

\* a set of a new key into a full tier of capacity 2 evicted an entry
C9_Witness ==
    /\ lastOp.op = "set"
    /\ lastOp.removed # {}
    /\ Len(memory_cache) = 2
    /\ MemoryCapacity(settings.memory_cache_entries) = 2

(***************************************************************************)
(* Properties of one chat request.                                         *)
(***************************************************************************)
NoGeneration(r) == r.called.search = 0 /\ r.called.generate = 0

\* C2 as stated: whenever CacheService.get returned a value for the request's
\* key, neither Search nor a generation collaborator is called for that
\* request.
C2_HitNeverGeneratesAsStated ==
    \A t \in ChatTasks : req[t].got.some => NoGeneration(req[t])

\* C2: whenever CacheService.get returned a value that deserialises into a
\* ChatResponse, the request is answered with that value and neither Search
\* nor a generation collaborator is called for it, nor CacheService.set.
C2_HitNeverGenerates ==
    \A t \in ChatTasks :
        (req[t].got.some /\ FromValueOk(req[t].got.val)) =>
            /\ NoGeneration(req[t])
            /\ req[t].called.set = 0
            /\ pc[t] = "done"
            /\ req[t].response = req[t].got

\* a request answered from a lower tier after promotion
C2_Witness ==
    \E t \in ChatTasks :
        /\ pc[t] = "done"
        /\ req[t].outcome = "hit"
        /\ req[t].source = "redis"
        /\ req[t].got = Some(ChatJson("hello"))

Finished(t) == pc[t] = "done"
Missed(t) == req[t].probe = "absent"

SetWrites == {"set_redis", "set_sqlite"}

\* C7 as stated: once set has stored the value in the Memory Tier the caller
\* has its success, whatever the Distributed and Persistent Tiers do and
\* however long they take: it is never waiting for a tier's write, and the
\* Persistent Tier write never waits for the Distributed Tier write.
C7_WriteIsolationAsStated ==
    \A t \in ChatTasks :
        (req[t].called.set = 1 /\ pc[t] \notin {"set_mem_lock", "set_mem"}) =>
            /\ Contains(memory_cache, req[t].key)
            /\ EntryOf(memory_cache, req[t].key).value = req[t].response.val
            /\ req[t].outcome = "generated"
            /\ pc[t] \notin SetWrites

\* the caller of set waits for the Distributed Tier write with the Persistent
\* Tier write not yet issued
C7_Witness ==
    \E t \in ChatTasks :
        /\ pc[t] = "set_redis"
        /\ settings.sqlite_repo
        /\ Contains(memory_cache, req[t].key)

(***************************************************************************)
(* Properties of the locks.                                                *)
(***************************************************************************)
ModelPcs == {"gen", "model_call"}
ModelWaitPcs == {"gen_lock"} \cup AuxKinds

\* C4: at most one task holds write access to the model, the holders are
\* exactly the tasks inside their call on the model, and write access is
\* granted only when nobody holds it: a task that asks while another holds it
\* stays where it asked.
C4_MutualExclusion ==
    /\ [](/\ Cardinality(model_writers) <= 1
          /\ model_writers = {t \in Tasks : pc[t] \in ModelPcs})
    /\ [][\A t \in Tasks :
             (pc[t] \in ModelWaitPcs /\ model_writers # {}) =>
                 /\ pc'[t] = pc[t]
                 /\ t \notin model_writers']_vars

\* a chat request generates while the other chat request and the third task
\* wait for write access
C4_Witness ==
    /\ pc["c1"] = "gen"
    /\ pc["c2"] = "gen_lock"
    /\ pc[AuxTask] \in AuxKinds

MemoryPcs == {"get_mem", "promote", "set_mem"}
TierPcs == {"get_redis", "get_sqlite", "set_redis", "set_sqlite"}
CachePcs == MemoryLockPcs \cup MemoryPcs \cup TierPcs

Step(t) ==
    IF t = AuxTask THEN (\E kind \in AuxKinds : AuxBegin(kind)) \/ AuxAcquire \/ AuxFinish
    ELSE ChatStep(t, MessageLengths, PlainHeaders) \/ SearchPath(t)

Started == {t \in Tasks : pc[t] \notin {"idle", "done"}}

\* C5: the Memory Tier mutex is held only inside one Memory Tier operation,
\* so never across Distributed or Persistent Tier I/O; the model write lock
\* is never held inside CacheService.get or set; no task holds both locks; a
\* task inside a cache operation can take its next step whoever holds the
\* model lock, waiting at most for the holder of the mutex, who can step;
\* and while any request is unfinished some started task can step.
C5_LocksNeverNest ==
    /\ memory_lock = {t \in Tasks : pc[t] \in MemoryPcs}
    /\ Cardinality(memory_lock) <= 1
    /\ memory_lock \cap model_writers = {}
    /\ \A t \in model_writers : pc[t] \notin CachePcs
    /\ \A t \in ChatTasks :
          pc[t] \in CachePcs =>
              \/ ENABLED Step(t)
              \/ /\ pc[t] \in MemoryLockPcs
                 /\ \E h \in memory_lock : ENABLED Step(h)
    /\ Started # {} => \E t \in Started : ENABLED Step(t)

\* a request is inside its cache read, promoting a lower tier's value, while
\* another task holds the model lock and the other request waits for it
C5_Witness ==
    /\ pc["c1"] = "promote"
    /\ model_writers = {AuxTask}
    /\ pc["c2"] = "gen_lock"

(***************************************************************************)
(* Properties of the statistics.                                           *)
(***************************************************************************)
\* the requests that have called CacheService::get
GetCallers == {t \in ChatTasks : pc[t] # "idle" /\ req[t].use_cache}

\* C11: total_requests equals the number of CacheService.get calls made so
\* far, also when the calls of two requests interleave; it changes only in
\* the step that enters get, and then by exactly one: no tier probe, no
\* promotion, no set and no other handler changes it.
C11_TotalRequests ==
    /\ [](stats.total_requests = Cardinality(GetCallers))
    /\ [][stats'.total_requests # stats.total_requests =>
             /\ stats'.total_requests = stats.total_requests + 1
             /\ \E t \in ChatTasks :
                   /\ pc[t] = "idle"
                   /\ pc'[t] = "get_mem_lock"]_vars

\* two interleaved get calls were counted, one request has since called set
\* and the other is promoting a lower tier's value
C11_Witness ==
    /\ stats.total_requests = 2
    /\ pc["c1"] = "done"
    /\ req["c1"].called.set = 1
    /\ pc["c2"] = "promote"

(***************************************************************************)
(* Properties of the streamed response.                                    *)
(***************************************************************************)
RECURSIVE Concat(_)
Concat(texts) == IF texts = << >> THEN << >> ELSE Head(texts) \o Concat(Tail(texts))

Responses(lines) == [i \in 1..Len(lines) |-> lines[i].response]

\* the producer has ended and the consumer has read every line it sent
ConsumedToEnd ==
    /\ stream.pc = "end"
    /\ stream.rx = "open"
    /\ stream.channel = << >>

\* C12 as stated: the response fields of the emitted objects, concatenated in
\* emission order, are the original response text, whatever whitespace it
\* holds.
C12_StreamReconstructionAsStated ==
    ConsumedToEnd => Concat(Responses(stream.received)) = stream.response

\* a response that starts with a space was streamed to its end and the
\* tokens concatenate to a different text
C12_Witness ==
    /\ ConsumedToEnd
    /\ stream.response = <<" ", "a", "\t", "a">>
    /\ Concat(Responses(stream.received)) = <<"a", " ", "a">>

Streaming == stream.pc # "none"
Cancelled == Streaming /\ stream.rx = "dropped"

\* C13: once the consumer has dropped the receiver, nothing more is
\* enqueued or emitted, in particular no done object; the producer's next
\* send fails and ends its task, so that it goes on by at most the one word
\* it reaches after the sleep it was in.
C13_Cancellation ==
    /\ [](Cancelled =>
             /\ stream.channel = << >>
             /\ stream.index <= stream.index_at_drop + 1
             /\ \A i \in 1..Len(stream.received) : ~stream.received[i].done
                   \/ stream.pc = "end")
    /\ [][Cancelled =>
             /\ stream'.received = stream.received
             /\ stream'.channel = << >>
             /\ stream.pc \in {"send", "send_done"} => stream'.pc = "end"
             /\ stream.pc = "sleep" => stream'.pc \in {"send", "send_done"}]_vars

\* the consumer left after the first token; the producer has ended with
\* words left over and without the done object
C13_Witness ==
    /\ Cancelled
    /\ stream.pc = "end"
    /\ Len(stream.words) = 3
    /\ stream.index = 2
    /\ Len(stream.received) = 1
    /\ ~stream.received[1].done

\* what a consumer that reads to the end is to see: one object per word with
\* done false, then the terminal object
ExpectedLines ==
    LET n == Len(stream.words) IN
    [i \in 1..(n + 1) |->
        IF i <= n
        THEN [model |-> ModelName,
              response |-> IF i = 1 THEN stream.words[1]
                           ELSE <<" ">> \o stream.words[i],
              done |-> FALSE]
        ELSE [model |-> ModelName, response |-> << >>, done |-> TRUE,
              cache_hit |-> stream.cache_hit,
              cache_source |-> stream.cache_source,
              conversation_id |-> ConversationId]]

IsPrefix(a, b) == Len(a) <= Len(b) /\ a = SubSeq(b, 1, Len(a))

\* C14: what has been emitted and what waits in the channel is always an
\* initial part of: the n words' objects with done false, in word order, the
\* first token unprefixed and each later one prefixed by one space, then one
\* object with done true carrying cache_hit, cache_source and
\* conversation_id; a stream consumed to the end is exactly that sequence.
C14_LineProtocol ==
    Streaming =>
        /\ IsPrefix(stream.received \o stream.channel, ExpectedLines)
        /\ ConsumedToEnd => stream.received = ExpectedLines
        /\ stream.words = SplitWhitespace(stream.response)

\* a three-word answer from the cache was streamed to its end
C14_Witness ==
    /\ ConsumedToEnd
    /\ stream.words = << <<"a">>, <<"a">>, <<"a">> >>
    /\ stream.cache_hit
    /\ Len(stream.received) = 4
    /\ stream.received[3].response = <<" ", "a">>
    /\ stream.received[4].done

AsksEventStream == Streaming /\ "text/event-stream" \in stream.accept

\* C15 as stated: for a client that asked for an event stream, the response
\* is an event stream of one token event per group of 3 words, then one meta
\* event carrying cache_hit and cache_source, then one done event with an
\* empty payload.
C15_EventStreamAsStated ==
    (AsksEventStream /\ ConsumedToEnd) =>
        LET n == Len(stream.words)
            groups == (n + 2) \div 3
        IN  /\ stream.content_type = "text/event-stream"
            /\ Len(stream.received) = groups + 2
            /\ \A i \in 1..groups :
                  /\ ~stream.received[i].done
                  /\ Len(SplitWhitespace(stream.received[i].response)) =
                        IF i < groups THEN 3 ELSE n - 3 * (groups - 1)
            /\ {"cache_hit", "cache_source"} \subseteq DOMAIN stream.received[groups + 1]
            /\ stream.received[groups + 2].done
            /\ stream.received[groups + 2].response = << >>

\* a client that asked for an event stream got three words as three
\* line-delimited objects and the terminal object
C15_Witness ==
    /\ AsksEventStream /\ ConsumedToEnd
    /\ Len(stream.words) = 3
    /\ Len(stream.received) = 4
    /\ stream.content_type = "application/x-ndjson"

(***************************************************************************)
(* Properties of the routing.                                              *)
(***************************************************************************)
SourcesPrompt ==
    <<"message", "Additional context (sources)",
      <<[title |-> "t", url |-> "u", snippet |-> "s"]>> >>

HasGenerated(r) == r.generator # "none"

\* C16: a High request with no cloud API key whose search found results is
\* generated by the local model on the message extended with the sources
\* block of those results, exactly as a Medium request with results is, and
\* has called Search exactly once.
C16_RouterDowngrade ==
    \A t \in ChatTasks :
        LET r == req[t] IN
        (/\ r.searched = "results"
         /\ \/ r.complexity = "Medium"
            \/ r.complexity = "High" /\ ~api_key_set) =>
            /\ r.called.search = 1
            /\ r.prompt = Some(SourcesPrompt)
            /\ pc[t] # "cloud"
            /\ HasGenerated(r) => r.generator = "local" /\ r.called.generate = 1
            /\ Finished(t) => HasGenerated(r)

\* a High request without a cloud key was generated locally from the
\* enriched message
C16_Witness ==
    \E t \in ChatTasks :
        /\ Finished(t)
        /\ ~api_key_set
        /\ req[t].complexity = "High"
        /\ req[t].searched = "results"
        /\ req[t].generator = "local"
        /\ req[t].prompt = Some(SourcesPrompt)
        /\ req[t].outcome = "generated"

\* C17: a Low request never calls Search and is generated by the local model
\* on the unmodified message; a Medium request whose search answers is
\* generated by the local model after exactly one Search call, on the
\* unmodified message when the results are empty and on the message with the
\* sources block otherwise; a High request with a cloud API key whose search
\* answers is generated by the cloud collaborator after exactly one Search
\* call, on the message, and never by the local model.
C17_RoutingTable ==
    \A t \in ChatTasks :
        LET r == req[t] IN
        /\ r.complexity = "Low" =>
              /\ r.called.search = 0
              /\ r.prompt = Some(<<"message">>)
              /\ pc[t] \notin {"search", "cloud"}
              /\ HasGenerated(r) => r.generator = "local"
              /\ Finished(t) => HasGenerated(r)
        /\ r.complexity = "Medium" =>
              /\ pc[t] # "cloud"
              /\ HasGenerated(r) =>
                    /\ r.generator = "local"
                    /\ r.called.search = 1
                    /\ r.searched \in {"empty", "results"}
                    /\ r.prompt = IF r.searched = "empty" THEN Some(<<"message">>)
                                  ELSE Some(SourcesPrompt)
              /\ (Finished(t) /\ r.searched # "err") => HasGenerated(r)
        /\ (r.complexity = "High" /\ api_key_set) =>
              /\ pc[t] \notin {"gen_lock", "gen"}
              /\ HasGenerated(r) =>
                    /\ r.generator = "cloud"
                    /\ r.called.search = 1
                    /\ r.searched \in {"empty", "results"}
                    /\ r.prompt = Some(<<"message">>)
              /\ (Finished(t) /\ r.searched # "err") => HasGenerated(r)

\* a High request with a cloud key searched, found results and was answered
\* by the cloud collaborator
C17_Witness ==
    \E t \in ChatTasks :
        /\ Finished(t)
        /\ api_key_set
        /\ req[t].complexity = "High"
        /\ req[t].searched = "results"
        /\ req[t].generator = "cloud"
        /\ req[t].called = [search |-> 1, generate |-> 1, set |-> 0]

\* C18: when Search fails on the Medium or the High path the request ends at
\* once with the failure response that carries the search error, and no
\* generation collaborator is called for it.
C18_SearchFailure ==
    \A t \in ChatTasks :
        req[t].searched = "err" =>
            /\ req[t].complexity \in {"Medium", "High"}
            /\ Finished(t)
            /\ Reply(req[t]).kind = "failure"
            /\ Reply(req[t]).details = "search failed"
            /\ req[t].called.generate = 0
            /\ req[t].generator = "none"

\* a High request with a cloud key ended on a failed search
C18_Witness ==
    \E t \in ChatTasks :
        /\ Finished(t)
        /\ api_key_set
        /\ req[t].complexity = "High"
        /\ req[t].searched = "err"
        /\ Reply(req[t]).kind = "failure"

GeneratedReply == ToJsonString(ChatJson("bye"))

\* no tier holds a response generated by this run
NothingCached ==
    /\ \A i \in 1..Len(memory_cache) : memory_cache[i].value # ChatJson("bye")
    /\ \A k \in Keys :
          /\ redis[k].some => redis[k].val.value # GeneratedReply
          /\ sqlite[k].some => sqlite[k].val.value_json # GeneratedReply

\* C19: a request on which Search or a generation collaborator failed has
\* ended with the one failure response carrying that error and no stream; it
\* called Search and generation at most once each, the failed one exactly
\* once and last; it did not call CacheService.set, and no tier holds a
\* generated response.
C19_FailedRequest ==
    \A t \in ChatTasks :
        req[t].outcome = "error" =>
            /\ Finished(t)
            /\ Reply(req[t]).kind = "failure"
            /\ req[t].called.search <= 1
            /\ req[t].called.generate <= 1
            /\ req[t].called.set = 0
            /\ req[t].response = None
            /\ Reply(req[t]).details =
                  IF req[t].called.generate = 1 THEN "generation failed"
                  ELSE "search failed"
            /\ NothingCached

\* a streaming request that was to be cached ended on a failed local
\* generation
C19_Witness ==
    \E t \in ChatTasks :
        /\ Finished(t)
        /\ req[t].outcome = "error"
        /\ req[t].use_cache /\ req[t].wants_stream
        /\ req[t].generator = "local"
        /\ req[t].called = [search |-> 1, generate |-> 1, set |-> 0]

(***************************************************************************)
(* Properties of the classifier.                                           *)
(***************************************************************************)
Classified == lastOp.op = "classify"

\* C20: a message of fewer than 200 characters is Low, of 200 to 799
\* characters Medium, of 800 or more High; lengths 199, 200, 799, 800 and 801
\* are Low, Medium, Medium, High and High; and two requests whose messages
\* have the same number of characters are classified alike, whatever their
\* length in bytes and their other fields.
C20_ClassifierBoundaries ==
    /\ <<AnalyzeComplexity(199), AnalyzeComplexity(200), AnalyzeComplexity(799),
         AnalyzeComplexity(800), AnalyzeComplexity(801)>> =
       <<"Low", "Medium", "Medium", "High", "High">>
    /\ Classified =>
          /\ lastOp.request.chars \in 0..199 => lastOp.complexity = "Low"
          /\ lastOp.request.chars \in 200..799 => lastOp.complexity = "Medium"
          /\ lastOp.request.chars >= 800 => lastOp.complexity = "High"
          /\ \A other \in ChatRequests :
                other.chars = lastOp.request.chars =>
                    AnalyzeComplexity(CharCount(other)) = lastOp.complexity

\* a message of 199 two-byte characters was classified Low
C20_Witness ==
    /\ Classified
    /\ lastOp.request.chars = 199
    /\ lastOp.request.bytes = 398
    /\ lastOp.complexity = "Low"

(***************************************************************************)
(* Properties of the Fingerprinter.                                        *)
(***************************************************************************)
TwoFingerprints == lastOp.op = "cache_key" /\ lastOp.previous.some

\* the (message, model name, temperature, max_tokens) a request resolves to
ResolvedTuple(request) ==
    <<request.message, ResolvedModelName(request, AiConfig),
      ResolvedTemperature(request, AiConfig), ResolvedMaxTokens(request, AiConfig)>>

\* C22: two requests that agree on (message, resolved model name, resolved
\* temperature, resolved max_tokens) get the same cache key on every call,
\* whatever their stream, cache_bypass and conversation_id fields are.
C22_FingerprintDeterminism ==
    TwoFingerprints =>
        (ResolvedTuple(lastOp.request) = ResolvedTuple(lastOp.previous.val.request)
            => lastOp.key = lastOp.previous.val.key)

\* a request that names no model and asks for a bypass was given the key of
\* an earlier request that names the default model and asks for none
C22_Witness ==
    /\ TwoFingerprints
    /\ lastOp.request.model = None
    /\ lastOp.request.cache_bypass = Some(TRUE)
    /\ lastOp.previous.val.request.model = Some(DefaultModelName)
    /\ lastOp.previous.val.request.cache_bypass = None
    /\ ResolvedTuple(lastOp.request) = ResolvedTuple(lastOp.previous.val.request)
    /\ lastOp.key = lastOp.previous.val.key

\* the field list chat hands to cache_key for a request
FieldList(request) ==
    ChatKeyParts(request, ResolvedModelName(request, AiConfig),
                 ResolvedTemperature(request, AiConfig),
                 ResolvedMaxTokens(request, AiConfig))

\* C23: the fields are hashed as one logical tuple: two field lists that
\* differ in at least one field do not get the same key, also when they split
\* the same text differently across adjacent fields.
C23_LogicalTupleAsStated ==
    TwoFingerprints =>
        (FieldList(lastOp.request) # FieldList(lastOp.previous.val.request)
            => lastOp.key # lastOp.previous.val.key)

\* the field lists ("ab", "c", ..) and ("a", "bc", ..) were given one key
C23_Witness ==
    /\ TwoFingerprints
    /\ FieldList(lastOp.request)[1] = "ab"
    /\ FieldList(lastOp.request)[2] = "c"
    /\ FieldList(lastOp.previous.val.request)[1] = "a"
    /\ FieldList(lastOp.previous.val.request)[2] = "bc"
    /\ lastOp.key = lastOp.previous.val.key

(***************************************************************************)
(* Properties of the Persistent Tier.                                      *)
(***************************************************************************)
RepoGot == lastOp.op = "repo_get" /\ lastOp.ok

\* C24: CacheRepo.get(key) returns the row for key only if the row's
\* expires_at is strictly greater than the current time; a get that returns
\* a row increases that row's hit count by exactly one and changes no other
\* column and no other row; a get that returns nothing changes nothing.
C24_PersistentGet ==
    RepoGot =>
        LET key == lastOp.key
            old == lastOp.before[key]
        IN /\ lastOp.returned.some <=> (old.some /\ old.val.expires_at > lastOp.at)
           /\ lastOp.returned.some =>
                 /\ lastOp.returned.val =
                       [key |-> key, value_json |-> old.val.value_json,
                        created_at |-> old.val.created_at,
                        expires_at |-> old.val.expires_at,
                        hits |-> old.val.hits + 1]
                 /\ sqlite = [lastOp.before EXCEPT
                                 ![key] = Some([old.val EXCEPT !.hits = @ + 1])]
           /\ ~lastOp.returned.some => sqlite = lastOp.before

\* a get returned a live row and counted its third hit while an expired row
\* lay next to it
C24_Witness ==
    /\ RepoGot /\ lastOp.returned.some
    /\ lastOp.returned.val.hits = 3
    /\ \E k \in Keys \ {lastOp.key} :
          sqlite[k].some /\ sqlite[k].val.expires_at <= now

RepoWrote == lastOp.op = "repo_set" /\ lastOp.ok

\* the size control of this set found the file over its budget
OverBudget ==
    /\ settings.sqlite_max_size > 0
    /\ DbSize(lastOp.upserted) > settings.sqlite_max_size

\* C25: CacheRepo.set(key, value) on an absent key inserts a row with hit
\* count 0, created_at = now and expires_at = now + ttl_days; on an existing
\* key it overwrites the value, created_at and expires_at and leaves the
\* row's hit count unchanged; no other row is touched and the table holds
\* one row for the key.  (The row is there when set returns unless the size
\* control of the same call deleted it among the oldest rows.)
C25_PersistentUpsert ==
    RepoWrote =>
        LET key == lastOp.key
            old == lastOp.before[key]
            row == [value_json |-> lastOp.value_json, created_at |-> lastOp.at,
                    expires_at |-> lastOp.at + settings.sqlite_ttl_days,
                    hits |-> IF old.some THEN old.val.hits ELSE 0]
        IN /\ lastOp.upserted = [lastOp.before EXCEPT ![key] = Some(row)]
           /\ Cardinality(Rows(lastOp.upserted)) =
                 Cardinality(Rows(lastOp.before)) + (IF old.some THEN 0 ELSE 1)
           /\ ~OverBudget => sqlite = lastOp.upserted
           /\ sqlite[key].some => sqlite[key] = Some(row)

\* a set overwrote a row that had been hit twice, and the row is in the
\* table with the new value and timestamps and its two hits
C25_Witness ==
    /\ RepoWrote
    /\ lastOp.before[lastOp.key].some
    /\ lastOp.before[lastOp.key].val.hits = 2
    /\ lastOp.before[lastOp.key].val.value_json # lastOp.value_json
    /\ sqlite[lastOp.key].some
    /\ sqlite[lastOp.key].val.hits = 2
    /\ sqlite[lastOp.key].val.value_json = lastOp.value_json

RepoCleaned == lastOp.op = "repo_cleanup" /\ lastOp.ok

Deleted == Rows(lastOp.before) \ Rows(sqlite)

\* C26: cleanup_expired deletes exactly the rows whose expiry has passed
\* (expires_at <= now), returns the number of rows it deleted and leaves
\* every other row unchanged; it never deletes a row that get would return
\* at the same instant; called again at the same instant it deletes nothing
\* and returns 0.
C26_CleanupExpired ==
    RepoCleaned =>
        /\ Deleted = {k \in Rows(lastOp.before) :
                         lastOp.before[k].val.expires_at <= lastOp.at}
        /\ lastOp.returned = Some(Cardinality(Deleted))
        /\ \A k \in Keys \ Deleted : sqlite[k] = lastOp.before[k]
        /\ \A k \in Deleted :
              ~CacheRepoGet(lastOp.before, k, lastOp.at, "ok").opt.some
        /\ \A k \in Rows(sqlite) :
              CacheRepoGet(lastOp.before, k, lastOp.at, "ok").opt.some
        /\ lastOp.again => Deleted = {} /\ lastOp.returned = Some(0)

\* a cleanup deleted a row that expired at this very instant and kept a live
\* one
C26_Witness ==
    /\ RepoCleaned
    /\ \E k \in Deleted : lastOp.before[k].val.expires_at = lastOp.at
    /\ Rows(sqlite) # {}
    /\ lastOp.returned.val >= 1


Evicted == Rows(lastOp.upserted) \ Rows(sqlite)

\* C27: after every CacheRepo.set, if the on-disk size exceeds the configured
\* byte budget (a budget of 0 is no budget), exactly the 500 rows with the
\* smallest created_at are deleted, all rows when fewer than 500 exist, and
\* the other rows stay as they are; if the size does not exceed the budget,
\* the write deletes no row.
C27_SizeBoundedEviction ==
    RepoWrote =>
        IF OverBudget
        THEN /\ Cardinality(Evicted) =
                   IF Cardinality(Rows(lastOp.upserted)) < EvictBatch
                   THEN Cardinality(Rows(lastOp.upserted)) ELSE EvictBatch
             /\ \A a \in Evicted, b \in Rows(sqlite) :
                   lastOp.upserted[a].val.created_at <=
                   lastOp.upserted[b].val.created_at
             /\ \A b \in Rows(sqlite) : sqlite[b] = lastOp.upserted[b]
        ELSE sqlite = lastOp.upserted

\* a set left a batch and two rows in a file over its budget: 500 rows were
\* deleted, two rows are left, and the row just written is one of them
C27_Witness ==
    /\ RepoWrote
    /\ OverBudget
    /\ Cardinality(Rows(lastOp.upserted)) = EvictBatch + 2
    /\ Cardinality(Evicted) = EvictBatch
    /\ Cardinality(Rows(sqlite)) = 2
    /\ sqlite[lastOp.key].some


(***************************************************************************)
(* Properties of whole requests.                                           *)
(***************************************************************************)
ChatServed == lastOp.op = "chat"

\* what the response carries is cache_hit, cache_source, conversation_id
Carries(op, cache_hit, cache_source, conversation_id) ==
    /\ op.chat_response.val.cache_hit = cache_hit
    /\ op.chat_response.val.cache_source = cache_source
    /\ op.chat_response.val.conversation_id = conversation_id
    /\ \A stream_flag \in BOOLEAN, accept \in AcceptHeaders :
          LET d == Delivered(op, stream_flag, accept)
          IN d.kind # "plain" =>
                /\ d.cache_hit = cache_hit
                /\ d.cache_source = cache_source
                /\ d.conversation_id = conversation_id

\* the conversation of the request: the one it names, or a fresh one
AssignedConversation(op) ==
    /\ op.request.conversation_id.some =>
          op.conversation_id = op.request.conversation_id.val
    /\ ~op.request.conversation_id.some =>
          /\ op.conversation_id = Uuid("c", callsLeft + 1)
          /\ op.got.some => op.conversation_id # op.got.val.value.conversation_id

\* C21: every response served from the cache carries cache_hit = true,
\* cache_source equal to the tier that CacheService.get reported and the
\* conversation_id assigned to the current request, whatever is embedded in
\* the cached payload; every generated response carries cache_hit = false,
\* cache_source = None and the conversation_id assigned to the current
\* request, whatever the generation collaborator returned.
C21_AnnotationNeverInherited ==
    ChatServed =>
        /\ AssignedConversation(lastOp)
        /\ lastOp.outcome = "hit" =>
              Carries(lastOp, TRUE, Some(lastOp.got.val.source),
                      lastOp.conversation_id)
        /\ lastOp.outcome = "generated" =>
              Carries(lastOp, FALSE, None, lastOp.conversation_id)

\* a request of conversation id1 was served from Redis a payload that names
\* conversation id0 and says it came from SQLite
C21_Witness ==
    /\ ChatServed
    /\ lastOp.outcome = "hit"
    /\ lastOp.got.val.source = "redis"
    /\ lastOp.got.val.value.cache_source = Some("sqlite")
    /\ lastOp.got.val.value.conversation_id = "id0"
    /\ lastOp.conversation_id = "id1"
    /\ lastOp.chat_response.val.cache_source = Some("redis")


\* the request {message: "hi", model: "m", temperature: 0.5, max_tokens: 10}
IsHiRequest(request) ==
    /\ request.message = ShortMessage
    /\ request.model = Some("m")
    /\ request.temperature = Some(50)
    /\ request.max_tokens = Some(10)
    /\ request.cache_bypass = None

\* the first half: on empty tiers the request is not served from the cache,
\* takes the Low path, and a generation that returns "hello" gives a
\* response "hello" with cache_hit false
FirstServedCold(op) ==
    (op.cold /\ IsHiRequest(op.request)) =>
        /\ op.outcome # "hit"
        /\ op.complexity = "Low"
        /\ op.generator = "local"
        /\ op.outcome = "generated" =>
              /\ op.chat_response.val.response = "hello"
              /\ op.chat_response.val.cache_hit = FALSE

\* this request repeats, at once, the request that was just served "hello"
\* on empty tiers
RepeatsAtOnce(op) ==
    /\ IsHiRequest(op.request)
    /\ op.previous.some
    /\ op.previous.val.request = op.request
    /\ op.previous.val.cold
    /\ op.previous.val.outcome = "generated"
    /\ op.previous.val.response = Some("hello")

\* served from the Memory Tier, without a generation call
ServedFromMemory(op) ==
    /\ op.outcome = "hit"
    /\ op.got.val.source = "memory"
    /\ op.generator = "none"
    /\ op.chat_response.val.response = "hello"
    /\ op.chat_response.val.cache_hit = TRUE
    /\ op.chat_response.val.cache_source = Some("memory")

\* C28 as stated: on empty tiers the request misses, takes the Low path and
\* answers "hello" with cache_hit false, and the identical request repeated
\* at once is served from the Memory Tier.
C28_EndToEndAsStated ==
    ChatServed =>
        /\ FirstServedCold(lastOp)
        /\ RepeatsAtOnce(lastOp) => ServedFromMemory(lastOp)

\* C28: on empty tiers the request misses, takes the Low path and answers
\* "hello" with cache_hit false; when the probability draw lets both
\* requests use the cache and the memory TTL is at least one second, the
\* identical request repeated at once is served from the Memory Tier with
\* cache_hit true and cache_source "memory", without a generation call.
C28_EndToEnd ==
    ChatServed =>
        /\ FirstServedCold(lastOp)
        /\ (/\ RepeatsAtOnce(lastOp)
            /\ lastOp.previous.val.use_cache
            /\ lastOp.use_cache
            /\ settings.memory_ttl_seconds >= 1) => ServedFromMemory(lastOp)

\* the repeat was served from memory, for another conversation than the
\* first, with the lower tiers configured as well
C28_Witness ==
    /\ ChatServed
    /\ RepeatsAtOnce(lastOp)
    /\ lastOp.previous.val.use_cache
    /\ lastOp.use_cache
    /\ settings.memory_ttl_seconds >= 1
    /\ settings.redis_repo /\ settings.sqlite_repo
    /\ ServedFromMemory(lastOp)
    /\ stats.memory_hits = 1
    /\ stats.total_requests = 2


\* the cloud call of this request went wrong: no 2xx status, or a body that
\* is no JSON or has no string at choices[0].message.content
CloudCallFailed(op) ==
    /\ op.cloud.some
    /\ \/ ~op.cloud.val.sent
       \/ op.cloud.val.status \notin 200 .. 299
       \/ ~op.cloud.val.json
       \/ ~op.cloud.val.content.some

\* the failure response, and nothing written to any tier
FailedUncached(op) ==
    /\ op.outcome = "error"
    /\ op.error.some
    /\ ~op.chat_response.some
    /\ op.set = 0

\* C29 as stated: a cloud call whose status is not 2xx or whose body is
\* malformed (no JSON, or no string at choices[0].message.content) is an
\* error of the request: the failure response is produced and nothing is
\* cached for it.
C29_CloudErrorContractAsStated ==
    (ChatServed /\ CloudCallFailed(lastOp)) => FailedUncached(lastOp)

\* a 200 reply whose JSON has no content was answered as a normal response
\* with the fixed text, and that text now sits in the Memory Tier under the
\* request's key
C29_Witness ==
    /\ ChatServed
    /\ lastOp.cloud.some
    /\ lastOp.cloud.val.status = 200
    /\ lastOp.cloud.val.json
    /\ ~lastOp.cloud.val.content.some
    /\ lastOp.outcome = "generated"
    /\ lastOp.chat_response.val.response = NoContent
    /\ lastOp.set = 1
    /\ Contains(memory_cache, lastOp.key)
    /\ EntryOf(memory_cache, lastOp.key).value.response = NoContent


(***************************************************************************)
(* Properties of the hit counters.                                         *)
(***************************************************************************)
HitCounter(tier) ==
    CASE tier = "memory" -> "memory_hits"
      [] tier = "redis" -> "redis_hits"
      [] tier = "sqlite" -> "sqlite_hits"

Tiers == {"memory", "redis", "sqlite"}

\* the get calls that took their value from the tier
ServedBy(tier) == {t \in ChatTasks : req[t].source = tier}

\* C30: in every reachable state memory_hits + redis_hits + sqlite_hits <=
\* total_requests; each CacheService.get increments at most one of the
\* three hit counters, the one of the tier whose source it returns, and
\* none when it returns absent, so that every hit counter equals the number
\* of get calls that took their value from its tier; no counter ever
\* decreases.
C30_StatisticsInvariant ==
    /\ [](stats.memory_hits + stats.redis_hits + stats.sqlite_hits
              <= stats.total_requests)
    /\ [](\A tier \in Tiers :
              stats[HitCounter(tier)] = Cardinality(ServedBy(tier)))
    /\ [](\A t \in ChatTasks :
              /\ req[t].probe = "absent" => req[t].source = "none"
              /\ req[t].probe = "hit" => req[t].source \in Tiers)
    /\ [][/\ \A c \in DOMAIN stats : stats'[c] >= stats[c]
          /\ \A tier \in Tiers :
                stats'[HitCounter(tier)] # stats[HitCounter(tier)] =>
                    /\ stats'[HitCounter(tier)] = stats[HitCounter(tier)] + 1
                    /\ \A other \in Tiers \ {tier} :
                          stats'[HitCounter(other)] = stats[HitCounter(other)]
                    /\ \E t \in ChatTasks :
                          /\ req[t].source = "none"
                          /\ req'[t].source = tier]_vars

\* two interleaved get calls: one returned absent and its request wrote the
\* generated value, the other then returned the Distributed Tier's copy
C30_Witness ==
    /\ stats.total_requests = 2
    /\ stats.memory_hits = 0
    /\ stats.redis_hits = 1
    /\ stats.sqlite_hits = 0
    /\ req["c1"].probe = "absent"
    /\ req["c2"].probe = "hit"
    /\ req["c2"].source = "redis"

(***************************************************************************)
(* Properties of the stream channel.                                       *)
(***************************************************************************)
\* the producer stands at a send and the channel has no room
ProducerWaits ==
    /\ stream.pc \in {"send", "send_done"}
    /\ stream.rx = "open"
    /\ Len(stream.channel) = ChannelCapacity

\* the lines the producer has sent so far
Sent == stream.received \o stream.channel

\* C31: the stream channel never holds more than 32 undelivered chunks, the
\* producer sending nothing while it is full; and the producer task always
\* ends: with a consumer that keeps receiving, after it has sent every
\* word's object and the terminal object as the last one; with a consumer
\* that has dropped the channel, at its next send.
C31_BoundedBufferAndTermination ==
    /\ [](Streaming => Len(stream.channel) <= ChannelCapacity)
    /\ [][ProducerWaits =>
             /\ Len(stream'.channel) <= Len(stream.channel)
             /\ stream'.pc = stream.pc
             /\ stream'.index = stream.index]_vars
    /\ [](Streaming /\ stream.pc = "end" /\ stream.rx = "open" =>
             /\ Len(Sent) = Len(stream.words) + 1
             /\ Sent[Len(Sent)].done)
    /\ [][Cancelled /\ stream.pc \in {"send", "send_done"}
             /\ stream' # stream => stream'.pc = "end"]_vars
    /\ Streaming ~> (stream.pc = "end")

\* the producer waits at the terminal object behind 32 undelivered word
\* objects, the consumer having taken one so far
C31_Witness ==
    /\ ProducerWaits
    /\ stream.pc = "send_done"
    /\ Len(stream.words) = ChannelCapacity + 1
    /\ Len(stream.received) = 1


(***************************************************************************)
(* Properties of concurrent requests on the tiers.                         *)
(***************************************************************************)
\* the requests that have passed their set_memory
WroteMemory ==
    {t \in ChatTasks : req[t].called.set = 1
                         /\ pc[t] \in {"set_redis", "set_sqlite", "done"}}

\* C32: after any sequence of get, set and promotion steps, also interleaved
\* between concurrent requests, the Memory Tier holds at most
\* max(memory_cache_entries, 1) entries and at most one entry per key.
C32_MemoryCapacity ==
    /\ Len(memory_cache) <= Max(settings.memory_cache_entries, 1)
    /\ \A i, j \in 1 .. Len(memory_cache) :
          memory_cache[i].key = memory_cache[j].key => i = j

\* with memory_cache_entries = 0 two concurrent requests have written their
\* values for different keys: the tier holds one entry
C32_Witness ==
    /\ settings.memory_cache_entries = 0
    /\ WroteMemory = ChatTasks
    /\ req["c1"].key # req["c2"].key
    /\ Len(memory_cache) = 1


\* the request task has just answered called CacheService::set(key, v) and
\* set has returned
SetCompleted(task) ==
    /\ lastOp.op = "finished"
    /\ lastOp.task = task
    /\ lastOp.request.called.set = 1

\* no other request has since come to write the key
NoLaterSet(task) ==
    \A u \in ChatTasks \ {task} :
        req[u].called.set = 0 \/ req[u].key # lastOp.request.key

\* C33 as stated: once set(key, v) has completed and no later set for key is
\* performed, every get(key) that starts afterwards and hits returns v, also
\* when a get(key) that started before the set completes its promotion
\* after it.
C33_NoStaleOverwriteAsStated ==
    \A t \in ChatTasks :
        (/\ SetCompleted(t)
         /\ NoLaterSet(t)
         /\ req[t].key = lastOp.request.key
         /\ req[t].probe = "hit") => req[t].got = lastOp.request.response

\* the first worker read the key's old value from a lower tier, the second
\* worker's request wrote its value to every tier and answered, the first
\* then promoted the old value, and the second worker's next request is
\* served the old value from the Memory Tier while Redis holds the new one
C33_Witness ==
    /\ SetCompleted("c2")
    /\ NoLaterSet("c2")
    /\ req["c1"].key = lastOp.request.key
    /\ req["c1"].source = "redis"
    /\ req["c2"].key = lastOp.request.key
    /\ req["c2"].probe = "hit"
    /\ req["c2"].source = "memory"
    /\ req["c2"].got = req["c1"].got
    /\ req["c2"].got # lastOp.request.response
    /\ redis[lastOp.request.key] =
          Some([value |-> ToJsonString(lastOp.request.response.val),
                expires |-> now + settings.redis_ttl_seconds])


\* this get follows at once a set of the same key that returned Ok
ReadsOwnWrite ==
    /\ lastOp.op = "repo_get"
    /\ lastOp.ok
    /\ lastOp.previous.some
    /\ lastOp.previous.val.ok
    /\ lastOp.previous.val.key = lastOp.key

\* C34 as stated: after CacheRepo.set(key, value) has returned successfully
\* with ttl_days > 0, an immediately following CacheRepo.get(key) returns
\* value, also when that set triggered the size-based eviction.
C34_PersistentWriteReadableAsStated ==
    (ReadsOwnWrite /\ settings.sqlite_ttl_days > 0) =>
        /\ lastOp.returned.some
        /\ lastOp.returned.val.value_json = lastOp.previous.val.value_json

\* a set under a size budget that the file exceeded returned Ok, its
\* eviction having deleted the row it had just written along with every
\* other row, and the get that followed found nothing
C34_Witness ==
    /\ ReadsOwnWrite
    /\ settings.sqlite_ttl_days > 0
    /\ settings.sqlite_max_size > 0
    /\ lastOp.key \in Rows(lastOp.previous.val.upserted)
    /\ DbSize(lastOp.previous.val.upserted) > settings.sqlite_max_size
    /\ Rows(lastOp.before) = {}
    /\ lastOp.returned = None


\* this step is one whole request
ChatHandled == callsLeft' # callsLeft

\* the request called CacheService::get, which counts every call
GetCalled == stats'.total_requests = stats.total_requests + 1

\* the request was not to use the cache: cache_bypass = true, or the draw
\* against cache_probability failed
DecidedAgainst(op) == UnwrapOr(op.request.cache_bypass, FALSE) \/ ~op.sampled

\* C35: the decision to use the cache is taken once per request and governs
\* both the probe and the write: a request writes to the cache only if it
\* probed it, a request that decided for the cache probes and, when its
\* generation succeeds, writes; a request with cache_bypass = true, or whose
\* probability draw failed, calls neither CacheService.get nor
\* CacheService.set and leaves every tier and every statistic unchanged.
C35_OneSamplingDecision ==
    [][ChatHandled =>
          /\ lastOp'.use_cache = ~DecidedAgainst(lastOp')
          /\ lastOp'.set = 1 => GetCalled
          /\ ~DecidedAgainst(lastOp') =>
                /\ GetCalled
                /\ lastOp'.outcome = "generated" => lastOp'.set = 1
          /\ DecidedAgainst(lastOp') =>
                /\ ~GetCalled
                /\ ~lastOp'.got.some
                /\ lastOp'.set = 0
                /\ UNCHANGED <<memory_cache, redis, sqlite, stats>>]_vars

\* a request whose draw succeeded but which carries cache_bypass = true was
\* generated over tiers that hold an answer under its key, and left them
\* and the counters as they were
C35_Witness ==
    /\ ChatServed
    /\ lastOp.request.cache_bypass = Some(TRUE)
    /\ lastOp.sampled
    /\ lastOp.outcome = "generated"
    /\ lastOp.set = 0
    /\ redis[lastOp.key].some
    /\ sqlite[lastOp.key].some
    /\ memory_cache = << >>
    /\ stats.total_requests = 0

====
